---- MODULE Spec2Model ----
(***************************************************************************)
(* Model of the Kahuna-Kid structured-output core:                        *)
(*   - the bounded fan-out of PromptOrchestratorAgent (invoke_many and     *)
(*     invoke_many_agent), specification SpecFan / FairSpecFan;            *)
(*   - one generation of the structured output chain (chain_fn.ainvoke     *)
(*     and completion_parser), specification SpecGen;                      *)
(*   - obnoxious_text_to_pydantic_list with the table extractor and the    *)
(*     fallback repair, specification SpecOb; split_into_recordsets and    *)
(*     the record loop of json_to_pydantic_list on their own,              *)
(*     specifications SpecSplit and SpecJson.                              *)
(* The parts share no state: each specification keeps the other parts'     *)
(* variables at their idle values.                                         *)
(***************************************************************************)
EXTENDS Integers, Sequences, FiniteSets, TLC

(***************************************************************************)
(* Bounds of the model.                                                    *)
(***************************************************************************)
MaxK == 3
MaxL == 2
TimeoutTicks == 2
MaxLines == 4
MaxMerged == 5
MaxRowCount == 3
MaxMarked == 3
MaxDivided == 3
MaxItems == 1
MaxChunks == 3
MaxRuns == 2
MaxRetriesArg == 2
MaxJobs == 2

(***************************************************************************)
(* Constants of the program.                                               *)
(***************************************************************************)
MaxContinuations == 4
Retries == 3
CollapseLimit == 100
RatioLimit == 9

VARIABLES
    policy,            \* which fan-out method was called
    concArg,           \* the caller's `concurrency` argument
    agentConcurrency,  \* self.concurrency of the orchestrating agent
    K,                 \* number of submitted units (len(prompts) / len(params))
    pc,                \* position of every run_one coroutine
    semOn,             \* sem is not None
    semValue,          \* asyncio.Semaphore._value
    waiters,           \* asyncio.Semaphore._waiters, FIFO
    res,               \* what run_one(idx) returned to gather
    failures,          \* the `failures` list of invoke_many_agent
    order,             \* units in the order in which they finished
    callPc,            \* the fan-out call: running, returned or raised
    ret,               \* what the call handed to its caller
    cfg,               \* how the chain was built (kind of output, caller's end token)
    attempt,           \* 1-based attempt of chain_fn.ainvoke
    gpc,               \* position of the generation
    history,           \* the History of the current completion_parser run
    turns,             \* `turns` of completion_parser
    got,               \* what the Gateway answered in the current attempt, in order
    contRequests,      \* continuation requests sent in the current attempt
    asmDone,           \* the current attempt reached the assembly
    assembled,         \* `assembled` of completion_parser
    failure,           \* why the current attempt failed
    lastExc,           \* `last_exception` of ainvoke
    elapsed,           \* ticks the unit has spent in Gateway calls (saturating)
    timedOut,          \* some Gateway call of the unit ran into its timeout
    repairCalls,       \* calls of fixing_parser.parse in the current attempt
    output,            \* what ainvoke returned or raised
    obData,            \* `data` of obnoxious_text_to_pydantic_list
    obSchema,          \* field types of `model`, in declaration order
    obPc,              \* position of obnoxious_text_to_pydantic_list
    obPath,            \* which extraction the `try` block chose
    obTab,             \* what md_table_to_pydantic_list gave
    obExc,             \* the `try` block ended in its `except`
    obInstances,       \* `instances`
    obDefective,       \* `defective_lines`
    obRecordsets,      \* `recordsets` of the fallback
    obSent,            \* recordsets submitted to the backup chain, in order
    obAbsorbed,        \* exceptions of the backup chain that were swallowed
    obAgain,           \* extraction of the serialized records
    obRet,             \* what obnoxious_text_to_pydantic_list returned
    spLines,           \* `merged_lines` of split_into_recordsets
    spCount,           \* `row_count` of split_into_recordsets
    spPc,              \* split_into_recordsets was called or has returned
    spOut,             \* what split_into_recordsets returned
    jsItems,           \* `items` of json_to_pydantic_list
    jsSchema,          \* the fields of `model`: name and type, in order
    jsPc,              \* the loop over `items` is to run or has run
    jsOut,             \* what json_to_pydantic_list gave
    SHARED_CTX,        \* the module-level InvocationContext of the pipeline governor
    gvPc,              \* where main_async is
    gvRun,             \* how many times main_async was called in this process
    gvMaxRetries,      \* the `max_retries` argument of the current run
    gvStep,            \* the index in `_steps` of the step being run
    gvAttempt,         \* `attempt` of _run_agent_step
    gvLast,            \* how the latest attempt of the run ended
    gvSteps,           \* pipeline.steps
    gvRet,             \* what main_async returned
    wkPc,              \* where JobWorker.run is
    is_busy,           \* worker_state.is_busy of the singleton row
    wkJobs,            \* jobs.status of every job
    wkConn,            \* the connection `conn` of run
    wkJob,             \* the job picked up by run
    wkLast             \* what the latest iteration of run did

fanVars == <<policy, concArg, agentConcurrency, K, pc, semOn, semValue,
             waiters, res, failures, order, callPc, ret>>

genVars == <<cfg, attempt, gpc, history, turns, got, contRequests, asmDone,
             assembled, failure, lastExc, elapsed, timedOut, repairCalls, output>>

obVars == <<obData, obSchema, obPc, obPath, obTab, obExc, obInstances, obDefective,
            obRecordsets, obSent, obAbsorbed, obAgain, obRet>>

splitVars == <<spLines, spCount, spPc, spOut>>

jsonVars == <<jsItems, jsSchema, jsPc, jsOut>>

govVars == <<SHARED_CTX, gvPc, gvRun, gvMaxRetries, gvStep, gvAttempt, gvLast, gvSteps, gvRet>>

wkVars == <<wkPc, is_busy, wkJobs, wkConn, wkJob, wkLast>>

vars == <<fanVars, genVars, obVars, splitVars, jsonVars, govVars, wkVars>>

(***************************************************************************)
(* Helpers on sequences and sets.                                          *)
(***************************************************************************)
SetMin(S) == CHOOSE x \in S : \A y \in S : x <= y
SetMax(S) == CHOOSE x \in S : \A y \in S : x >= y
Front(s) == SubSeq(s, 1, Len(s) - 1)
Last(s) == s[Len(s)]
PosIn(s, x) == CHOOSE i \in 1..Len(s) : s[i] = x

(***************************************************************************)
(* PromptOrchestratorAgent: the concurrency argument and the semaphore.    *)
(***************************************************************************)
IntOpt(n) == [tag |-> "int", v |-> n]
NoneOpt == [tag |-> "None", v |-> 0]
AbsentOpt == [tag |-> "absent", v |-> 0]

Policies == {"invoke_many", "invoke_many_agent"}

\* The default of the `concurrency` parameter in the two signatures.
ConcurrencyDefault(p) == IF p = "invoke_many" THEN IntOpt(0) ELSE NoneOpt

\* `if concurrency is None: concurrency = self.concurrency`
ResolveConcurrency(p, arg, selfc) ==
    LET a == IF arg.tag = "absent" THEN ConcurrencyDefault(p) ELSE arg
    IN  IF a.tag = "None" THEN selfc ELSE a.v

\* `asyncio.Semaphore(concurrency) if concurrency and concurrency > 0 else None`
HasSem_AlsoForZero(c) == c >= 0
HasSem(c) == c > 0

\* asyncio.Semaphore.locked(): no free slot, or somebody queued before us.
SemLocked_Never(v, ws) == FALSE
SemLocked(v, ws) == v = 0 \/ ws # <<>>

\* `async with sem:` leaves through __aexit__ on every exit path.
ReleasesOnExit_SuccessOnly(kind) == kind = "ok"
ReleasesOnExit(kind) == TRUE

Units == 0..(K - 1)
Conc == ResolveConcurrency(policy, concArg, agentConcurrency)
InFlight == Cardinality({u \in Units : pc[u] = "core"})

(***************************************************************************)
(* Values handed around by run_one and by the two fan-out methods.         *)
(***************************************************************************)
NoRes == [kind |-> "none", of |-> -1]
Value(idx) == [kind |-> "value", of |-> idx]        \* result of self.invoke(prompts[idx])
Exc(idx) == [kind |-> "exc", of |-> idx]            \* the exception raised by unit idx
ChildTuple(idx) == [kind |-> "tuple", of |-> idx]   \* (child.name, ctx) of unit idx
PyNone(idx) == [kind |-> "None", of |-> idx]        \* run_one returned None

\* name = f"{self.name}.child.{idx:06d}"; distinct indices give distinct names.
ChildName_NoIndex(idx) == [base |-> "child", idx |-> 0]
ChildName(idx) == [base |-> "child", idx |-> idx]

\* The input p of unit idx as submitted, and the preview invoke_one_agent
\* makes of it: json.dumps(param) cut after 800 characters.
Param(idx) == [of |-> idx, truncated |-> FALSE]
ParamPreview(idx) == [of |-> idx, truncated |-> TRUE]

\* {"name": name, "idx": idx, "error": err, "param": p}
FailureRecord(idx) ==
    [name |-> ChildName(idx), idx |-> idx, error |-> Exc(idx),
     param |-> Param(idx)]

\* ctx.session.state["errors"][child.name] as invoke_one_agent writes it in
\* its except clause, into the session of the child's own fresh context.
ErrorDetails(idx) ==
    [agent |-> "child", message |-> Exc(idx), traceback |-> Exc(idx),
     param_preview |-> ParamPreview(idx)]

\* The state of the context of unit idx when the unit has ended with `kind`.
ChildState(idx, kind) ==
    IF kind = "err" THEN [errors |-> <<<<ChildName(idx), ErrorDetails(idx)>>>>]
    ELSE [errors |-> <<>>]

\* What run_one hands to gather for a unit that ended with `kind`.
RunOneResult(p, idx, kind) ==
    IF p = "invoke_many"
    THEN IF kind = "ok" THEN Value(idx) ELSE Exc(idx)
    ELSE IF kind = "ok" THEN ChildTuple(idx) ELSE PyNone(idx)

NoRet == [exc |-> NoRes, out |-> <<>>, merged |-> <<>>, failures |-> <<>>]

(***************************************************************************)
(* Idle values of the parts.                                               *)
(***************************************************************************)
NoText == <<>>
NoCfg == [kind |-> "text", token |-> NoText]
NoOutput == [kind |-> "none", text |-> NoText, cause |-> "none"]

NoTab == [shape |-> "none", records |-> <<>>, defective_lines |-> <<>>, err |-> "none"]
PyNoneList == [none |-> TRUE, items |-> <<>>]

ObIdle ==
    /\ obData = <<>>
    /\ obSchema = <<>>
    /\ obPc = "idle"
    /\ obPath = "none"
    /\ obTab = NoTab
    /\ obExc = FALSE
    /\ obInstances = PyNoneList
    /\ obDefective = PyNoneList
    /\ obRecordsets = <<>>
    /\ obSent = <<>>
    /\ obAbsorbed = 0
    /\ obAgain = NoTab
    /\ obRet = PyNoneList

SplitIdle ==
    /\ spLines = <<>>
    /\ spCount = 0
    /\ spPc = "idle"
    /\ spOut = <<>>

\* `SHARED_CTX: Optional[InvocationContext] = None`
NoCtx == [none |-> TRUE, session |-> 0, agent |-> <<0, 0, 0>>, writers |-> {}]
NoReturn == [status |-> "none"]

GovIdle ==
    /\ SHARED_CTX = NoCtx
    /\ gvPc = "idle"
    /\ gvRun = 0
    /\ gvMaxRetries = 0
    /\ gvStep = 0
    /\ gvAttempt = 0
    /\ gvLast = "none"
    /\ gvSteps = <<>>
    /\ gvRet = NoReturn

WkIdle ==
    /\ wkPc = "idle"
    /\ is_busy = FALSE
    /\ wkJobs = <<>>
    /\ wkConn = "none"
    /\ wkJob = 0
    /\ wkLast = "none"

JsonIdle ==
    /\ jsItems = <<>>
    /\ jsSchema = <<>>
    /\ jsPc = "idle"
    /\ jsOut = NoTab

GenIdle ==
    /\ cfg = NoCfg
    /\ attempt = 0
    /\ gpc = "idle"
    /\ history = <<>>
    /\ turns = 0
    /\ got = <<>>
    /\ contRequests = 0
    /\ asmDone = FALSE
    /\ assembled = NoText
    /\ failure = "none"
    /\ lastExc = "none"
    /\ elapsed = 0
    /\ timedOut = FALSE
    /\ repairCalls = 0
    /\ output = NoOutput

FanIdle ==
    /\ policy = "invoke_many"
    /\ concArg = AbsentOpt
    /\ agentConcurrency = 0
    /\ K = 0
    /\ pc = <<>>
    /\ semOn = FALSE
    /\ semValue = 0
    /\ waiters = <<>>
    /\ res = <<>>
    /\ failures = <<>>
    /\ order = <<>>
    /\ callPc = "idle"
    /\ ret = NoRet

(***************************************************************************)
(* Init: the call was made, the semaphore and the K coroutines exist.      *)
(***************************************************************************)
InitFan ==
    /\ policy \in Policies
    /\ concArg \in {AbsentOpt, NoneOpt} \cup {IntOpt(n) : n \in 0..MaxL}
    /\ agentConcurrency \in 0..MaxL
    /\ K \in 0..MaxK
    /\ pc = [u \in 0..(K - 1) |-> "pending"]
    /\ semOn = HasSem(ResolveConcurrency(policy, concArg, agentConcurrency))
    /\ semValue = IF semOn THEN ResolveConcurrency(policy, concArg, agentConcurrency) ELSE 0
    /\ waiters = <<>>
    /\ res = [u \in 0..(K - 1) |-> NoRes]
    /\ failures = <<>>
    /\ order = <<>>
    /\ callPc = "running"
    /\ ret = NoRet
    /\ GenIdle
    /\ ObIdle
    /\ SplitIdle
    /\ JsonIdle
    /\ GovIdle
    /\ WkIdle

(***************************************************************************)
(* run_one up to its first suspension: the tasks of gather take their      *)
(* first step in submission order; each either enters self.invoke /        *)
(* self.invoke_one_agent at once or queues on the semaphore.               *)
(***************************************************************************)
Start(u) ==
    /\ u \in Units
    /\ pc[u] = "pending"
    /\ \A v \in Units : v < u => pc[v] # "pending"
    /\ IF ~semOn
       THEN /\ pc' = [pc EXCEPT ![u] = "core"]
            /\ UNCHANGED <<semValue, waiters>>
       ELSE IF ~SemLocked(semValue, waiters)
            THEN /\ semValue' = semValue - 1
                 /\ pc' = [pc EXCEPT ![u] = "core"]
                 /\ UNCHANGED waiters
            ELSE /\ waiters' = Append(waiters, u)
                 /\ pc' = [pc EXCEPT ![u] = "waiting"]
                 /\ UNCHANGED semValue
    /\ UNCHANGED <<policy, concArg, agentConcurrency, K, semOn, res,
                   failures, order, callPc, ret>>
    /\ UNCHANGED <<genVars, obVars, splitVars, jsonVars, govVars, wkVars>>

(***************************************************************************)
(* A unit leaves its core work with `kind` (ok: returned, err: raised an   *)
(* Exception).  Leaving the `async with` block releases the slot, which    *)
(* goes to the first waiter if there is one; the except clause of run_one  *)
(* turns the exception into the unit's result.                             *)
(***************************************************************************)
Exit(u, kind) ==
    /\ u \in Units
    /\ pc[u] = "core"
    /\ IF semOn /\ ReleasesOnExit(kind)
       THEN IF waiters = <<>>
            THEN /\ semValue' = semValue + 1
                 /\ pc' = [pc EXCEPT ![u] = "done"]
                 /\ UNCHANGED waiters
            ELSE /\ waiters' = Tail(waiters)
                 /\ pc' = [pc EXCEPT ![u] = "done", ![Head(waiters)] = "core"]
                 /\ UNCHANGED semValue
       ELSE /\ pc' = [pc EXCEPT ![u] = "done"]
            /\ UNCHANGED <<semValue, waiters>>
    /\ res' = [res EXCEPT ![u] = RunOneResult(policy, u, kind)]
    /\ failures' = IF policy = "invoke_many_agent" /\ kind = "err"
                   THEN Append(failures, FailureRecord(u))
                   ELSE failures
    /\ order' = Append(order, u)
    /\ UNCHANGED <<policy, concArg, agentConcurrency, K, semOn, callPc, ret>>
    /\ UNCHANGED <<genVars, obVars, splitVars, jsonVars, govVars, wkVars>>

UnitReturns(u) == Exit(u, "ok")
UnitRaises(u) == Exit(u, "err")

(***************************************************************************)
(* The rest of the method once gather has returned.                        *)
(***************************************************************************)
\* gather(..., return_exceptions=False) over coroutines that catch Exception
\* themselves: it completes when every run_one has returned.
GatherDone_OnFirstError ==
    \/ \A u \in Units : pc[u] = "done"
    \/ \E u \in Units : res[u].kind \in {"exc", "None"}
GatherDone == \A u \in Units : pc[u] = "done"

\* The list gather returns: one entry per coroutine, in the order given.
Gathered ==
    [i \in 1..K |-> IF policy = "invoke_many" THEN <<i - 1, res[i - 1]>> ELSE res[i - 1]]

\* results.sort(key=lambda x: x[0]), a stable sort on the index: the entry at
\* position j moves behind the entries with a smaller index and behind the
\* earlier entries with the same index.
SortByIdx_Descending(s) ==
    LET rank(j) == Cardinality({k \in 1..Len(s) :
                        s[k][1] > s[j][1] \/ (s[k][1] = s[j][1] /\ k <= j)})
    IN  [i \in 1..Len(s) |-> s[CHOOSE j \in 1..Len(s) : rank(j) = i]]
SortByIdx(s) ==
    LET rank(j) == Cardinality({k \in 1..Len(s) :
                        s[k][1] < s[j][1] \/ (s[k][1] = s[j][1] /\ k <= j)})
    IN  [i \in 1..Len(s) |-> s[CHOOSE j \in 1..Len(s) : rank(j) = i]]

\* `if isinstance(r, Exception) and first_exc is None: first_exc = r`
FirstExc_KeepsLast(s) ==
    LET at == {i \in 1..Len(s) : s[i][2].kind = "exc"}
    IN  IF at = {} THEN NoRes ELSE s[SetMax(at)][2]
FirstExc(s) ==
    LET at == {i \in 1..Len(s) : s[i][2].kind = "exc"}
    IN  IF at = {} THEN NoRes ELSE s[SetMin(at)][2]

\* `if first_exc: raise first_exc` / `return out`
ManyOutcome_ReturnsAnyway(s) ==
    [raises |-> FALSE, exc |-> NoRes, out |-> [i \in 1..Len(s) |-> s[i][2]]]
ManyOutcome(s) ==
    LET first_exc == FirstExc(s)
        out == [i \in 1..Len(s) |-> s[i][2]]
    IN  IF first_exc # NoRes
        THEN [raises |-> TRUE, exc |-> first_exc, out |-> <<>>]
        ELSE [raises |-> FALSE, exc |-> NoRes, out |-> out]

\* `for r in results: if r and isinstance(r, tuple): merged[name] = child_ctx`
\* on a dict, which keeps the order of first insertion of its keys and the
\* value stored last under each key.
MergedOf(rs) ==
    LET tuples == {i \in 1..Len(rs) : rs[i].kind = "tuple"}
        key(i) == ChildName(rs[i].of)
        firsts == {i \in tuples : \A j \in tuples : j < i => key(j) # key(i)}
        nth(k) == CHOOSE i \in firsts : Cardinality({j \in firsts : j <= i}) = k
        lastOf(i) == SetMax({j \in tuples : key(j) = key(i)})
    IN  [k \in 1..Cardinality(firsts) |-> <<key(nth(k)), rs[lastOf(nth(k))].of>>]

Collect ==
    /\ callPc = "running"
    /\ GatherDone
    /\ IF policy = "invoke_many"
       THEN LET o == ManyOutcome(SortByIdx(Gathered))
            IN  /\ callPc' = IF o.raises THEN "raised" ELSE "returned"
                /\ ret' = [NoRet EXCEPT !.exc = o.exc, !.out = o.out]
       ELSE /\ callPc' = "returned"
            /\ ret' = [NoRet EXCEPT !.merged = MergedOf(Gathered), !.failures = failures]
    /\ UNCHANGED <<policy, concArg, agentConcurrency, K, pc, semOn, semValue,
                   waiters, res, failures, order>>
    /\ UNCHANGED <<genVars, obVars, splitVars, jsonVars, govVars, wkVars>>

NextFan ==
    \/ \E u \in 0..(MaxK - 1) : Start(u)
    \/ \E u \in 0..(MaxK - 1) : UnitReturns(u)
    \/ \E u \in 0..(MaxK - 1) : UnitRaises(u)
    \/ Collect

SpecFan == InitFan /\ [][NextFan]_vars

\* The event loop keeps running what is runnable: every task of gather is
\* scheduled, every unit's work ends (each Gateway call is bounded by
\* timeout_s, the continuations and the retries are bounded) and the method
\* resumes after gather.  Every step of the fan-out moves some coroutine
\* forward for good, so weak fairness of the next-state relation is enough.
FairSpecFan == SpecFan /\ WF_vars(NextFan)

(***************************************************************************)
(* Texts.  A text is a sequence of runs <<character, count>> in which      *)
(* neighbouring runs have different characters, so that texts of a few     *)
(* hundred characters stay small.                                          *)
(***************************************************************************)
RECURSIVE Norm(_)
Norm(t) ==
    IF t = <<>> THEN <<>>
    ELSE LET h == Norm(Front(t))
             x == Last(t)
         IN  IF x[2] = 0 THEN h
             ELSE IF h # <<>> /\ Last(h)[1] = x[1]
                  THEN Append(Front(h), <<x[1], Last(h)[2] + x[2]>>)
                  ELSE Append(h, x)

Cat(a, b) == Norm(a \o b)

RECURSIVE TLen(_)
TLen(t) == IF t = <<>> THEN 0 ELSE t[1][2] + TLen(Tail(t))

Whitespace == {" ", "\n"}

\* str.strip()
RECURSIVE LStrip(_)
LStrip(t) == IF t # <<>> /\ t[1][1] \in Whitespace THEN LStrip(Tail(t)) ELSE t
RECURSIVE RStrip(_)
RStrip(t) == IF t # <<>> /\ Last(t)[1] \in Whitespace THEN RStrip(Front(t)) ELSE t
Strip(t) == RStrip(LStrip(t))

\* str.lower() on the letters of the model's alphabet
LowerCh(c) == IF c = "C" THEN "c" ELSE IF c = "A" THEN "a" ELSE c
Lower(t) == Norm([i \in DOMAIN t |-> <<LowerCh(t[i][1]), t[i][2]>>])

\* str.replace(c, "") for every c of cs
Remove(t, cs) == Norm(SelectSeq(t, LAMBDA r : r[1] \notin cs))

\* str.endswith(tok)
EndsWith(t, tok) ==
    LET k == Len(tok)
        m == Len(t)
    IN  /\ k >= 1
        /\ k <= m
        /\ tok[1][1] = t[m - k + 1][1]
        /\ tok[1][2] <= t[m - k + 1][2]
        /\ k >= 2 => tok[k] = t[m]
        /\ \A i \in 2..(k - 1) : tok[i] = t[m - k + i]

Prompt == <<<<"P", 1>>>>
ContinueInstruction == <<<<"K", 1>>>>
Sentinel == <<<<"c", 1>>, <<"o", 1>>, <<"m", 1>>, <<"p", 1>>, <<"l", 1>>,
              <<"e", 1>>, <<"t", 1>>, <<"e", 1>>, <<"d", 1>>, <<".", 1>>>>

\* The texts the Gateway may answer with.
R_ab == <<<<"a", 1>>, <<"b", 1>>>>
R_cdot == <<<<"c", 1>>, <<".", 1>>>>
R_brace == <<<<"d", 1>>, <<"}", 1>>>>
R_sentinel == <<<<" ", 1>>, <<"C", 1>>>> \o Tail(Sentinel) \o <<<<" ", 1>>>>
R_blank == <<<<" ", 3>>>>
R_rep9 == <<<<"-", 8>>, <<"a", 1>>>>
R_long == <<<<"a", 13>>, <<"-", 150>>, <<".", 1>>>>
Replies == {R_ab, R_cdot, R_brace, R_sentinel, R_blank, R_rep9, R_long}

(***************************************************************************)
(* create_structured_output_chain: the end tokens in force.                *)
(***************************************************************************)
Kinds == {"text", "code", "structured"}
DotToken == <<<<".", 1>>>>
CodeTokens == {<<<<"BACKTICK", 3>>>>, <<<<"}", 1>>>>}
Configs == [kind : Kinds, token : {NoText, DotToken}]

\* completion_expected_end_token after the defaults were applied:
\* `heuristic` stands for None, otherwise `toks` holds the token(s).
EndTokens(c) ==
    LET t1 == IF c.kind = "code" /\ c.token = NoText
              THEN [heuristic |-> FALSE, toks |-> CodeTokens]
              ELSE IF c.token = NoText
                   THEN [heuristic |-> TRUE, toks |-> {}]
                   ELSE [heuristic |-> FALSE, toks |-> {c.token}]
    IN  IF c.kind = "structured"
        THEN [heuristic |-> FALSE, toks |-> CodeTokens]
        ELSE t1

\* Characters that have no name of their own in a TLA+ string are spelled out.
HeuristicEnds == {".", ";", "!", "?", "BACKTICK", "}", "\n", "|", "-", "*",
                  "DQUOTE", "QUOTE", ">", "]", "RDQUOTE", "/", "RLENTICULAR"}

\* is_complete(text)
is_complete(c, text) ==
    LET s == Strip(text)
        e == EndTokens(c)
    IN  IF s = <<>> THEN FALSE
        ELSE IF e.heuristic THEN Last(s)[1] \in HeuristicEnds
             ELSE \E tok \in e.toks : EndsWith(s, tok)

(***************************************************************************)
(* completion_parser: the guard against empty or pathological output.      *)
(***************************************************************************)
\* compact = current_completion.replace(" ", "").replace("-", "")
Compact(t) == Remove(Remove(t, {" "}), {"-"})

\* the `while True` loop that cuts runs of more than 100 dashes or spaces
Collapse(t) ==
    [i \in DOMAIN t |->
        IF t[i][1] \in {"-", " "} /\ t[i][2] > CollapseLimit
        THEN <<t[i][1], CollapseLimit>>
        ELSE t[i]]

MaxOf(a, b) == IF a >= b THEN a ELSE b
MinOf(a, b) == IF a <= b THEN a ELSE b

\* `len(compact) == 0 or (len(current_completion) // max(1, len(compact))) >= 9`
IsDegenerate_RatioOnly(cur, compact) ==
    (TLen(cur) \div MaxOf(1, TLen(compact))) >= RatioLimit
IsDegenerate(cur, compact) ==
    \/ TLen(compact) = 0
    \/ (TLen(cur) \div MaxOf(1, TLen(compact))) >= RatioLimit

(***************************************************************************)
(* completion_parser: History and assembly.                                *)
(***************************************************************************)
UserTurn(t) == [role |-> "user", content |-> t]
AssistantTurn(t) == [role |-> "assistant", content |-> t]

\* "".join(m["content"] for m in history if m["role"] == "assistant")
RECURSIVE Assemble_LastTurnOnly(_)
Assemble_LastTurnOnly(h) ==
    IF h = <<>> THEN NoText
    ELSE IF Last(h).role = "assistant" THEN Last(h).content
         ELSE Assemble_LastTurnOnly(Front(h))
RECURSIVE Assemble(_)
Assemble(h) ==
    IF h = <<>> THEN NoText
    ELSE IF Last(h).role = "assistant"
         THEN Cat(Assemble(Front(h)), Last(h).content)
         ELSE Assemble(Front(h))

Reply(t) == [kind |-> "reply", text |-> t]
GatewayFailure(k) == [kind |-> k, text |-> NoText]
FailureKinds == {"error", "timeout"}

\* The head of `while current_completion.lower() != "completed." and not
\* is_complete(current_completion)`: what the loop does with the reply it holds.
\*   "stop": leave the loop and assemble, "exhausted": raise, "ask": continue.
LoopHead_OneTurnMore(c, cur, n) ==
    IF Lower(cur) # Sentinel /\ ~is_complete(c, cur)
    THEN IF n > MaxContinuations THEN "exhausted" ELSE "ask"
    ELSE "stop"
LoopHead(c, cur, n) ==
    IF Lower(cur) # Sentinel /\ ~is_complete(c, cur)
    THEN IF n >= MaxContinuations THEN "exhausted" ELSE "ask"
    ELSE "stop"

Tick(d) == MinOf(elapsed + d, TimeoutTicks + 1)

(***************************************************************************)
(* Init of one generation: ainvoke has sent the first Gateway call of      *)
(* attempt 1.                                                              *)
(***************************************************************************)
InitGen ==
    /\ FanIdle
    /\ ObIdle
    /\ SplitIdle
    /\ JsonIdle
    /\ GovIdle
    /\ WkIdle
    /\ cfg \in Configs
    /\ attempt = 1
    /\ gpc = "initial_call"
    /\ history = <<>>
    /\ turns = 0
    /\ got = <<>>
    /\ contRequests = 0
    /\ asmDone = FALSE
    /\ assembled = NoText
    /\ failure = "none"
    /\ lastExc = "none"
    /\ elapsed = 0
    /\ timedOut = FALSE
    /\ repairCalls = 0
    /\ output = NoOutput

\* The effect of what follows once the loop holds `cur` after `n` turns, with
\* History h: leave the loop and assemble, raise, or send a continuation.
AfterReply(h, cur, n) ==
    LET what == LoopHead(cfg, cur, n)
    IN  /\ turns' = n
        /\ IF what = "ask"
           THEN /\ history' = Append(h, UserTurn(ContinueInstruction))
                /\ contRequests' = contRequests + 1
                /\ gpc' = "cont_call"
                /\ UNCHANGED <<asmDone, assembled, failure, lastExc>>
           ELSE IF what = "exhausted"
                THEN /\ history' = h
                     /\ gpc' = "failed"
                     /\ failure' = "exhausted"
                     /\ lastExc' = "exhausted"
                     /\ UNCHANGED <<contRequests, asmDone, assembled>>
                ELSE /\ history' = h
                     /\ gpc' = "assembled"
                     /\ asmDone' = TRUE
                     /\ assembled' = Assemble(h)
                     /\ UNCHANGED <<contRequests, failure, lastExc>>

(***************************************************************************)
(* The first Gateway call of the attempt answers r after d ticks, within   *)
(* its timeout: completion_parser starts.                                  *)
(***************************************************************************)
InitialReply(r, d) ==
    /\ gpc = "initial_call"
    /\ got' = Append(got, Reply(r))
    /\ elapsed' = Tick(d)
    /\ LET h == <<UserTurn(Prompt), AssistantTurn(r)>>
           stripped == Strip(r)
           compact == Compact(stripped)
           cur == Collapse(stripped)
       IN  IF IsDegenerate(cur, compact)
           THEN /\ history' = h
                /\ gpc' = "failed"
                /\ failure' = "degenerate"
                /\ lastExc' = "degenerate"
                /\ UNCHANGED <<turns, contRequests, asmDone, assembled>>
           ELSE AfterReply(h, cur, 0)
    /\ UNCHANGED <<cfg, attempt, timedOut, repairCalls, output>>
    /\ UNCHANGED <<fanVars, obVars, splitVars, jsonVars, govVars, wkVars>>

\* The first Gateway call raises (k = "error") or runs into timeout_s
\* (k = "timeout"): the attempt fails before completion_parser runs.
InitialFails(k) ==
    /\ gpc = "initial_call"
    /\ got' = Append(got, GatewayFailure(k))
    /\ elapsed' = IF k = "timeout" THEN Tick(TimeoutTicks) ELSE Tick(1)
    /\ timedOut' = (timedOut \/ k = "timeout")
    /\ gpc' = "failed"
    /\ failure' = k
    /\ lastExc' = k
    /\ UNCHANGED <<cfg, attempt, history, turns, contRequests, asmDone,
                   assembled, repairCalls, output>>
    /\ UNCHANGED <<fanVars, obVars, splitVars, jsonVars, govVars, wkVars>>

(***************************************************************************)
(* A continuation call answers r: the sentinel ends the loop without being *)
(* appended, any other reply is appended and the loop goes on.             *)
(***************************************************************************)
\* `if current_completion.lower() != "completed.": history.append(...)`
KeepsReply_Always(cur) == TRUE
KeepsReply(cur) == Lower(cur) # Sentinel

ContinuationReply(r, d) ==
    /\ gpc = "cont_call"
    /\ got' = Append(got, Reply(r))
    /\ elapsed' = Tick(d)
    /\ LET cur == Strip(r)
       IN  IF KeepsReply(cur)
           THEN AfterReply(Append(history, AssistantTurn(r)), cur, turns + 1)
           ELSE /\ gpc' = "assembled"
                /\ asmDone' = TRUE
                /\ assembled' = Assemble(history)
                /\ UNCHANGED <<history, turns, contRequests, failure, lastExc>>
    /\ UNCHANGED <<cfg, attempt, timedOut, repairCalls, output>>
    /\ UNCHANGED <<fanVars, obVars, splitVars, jsonVars, govVars, wkVars>>

\* `except Exception as e: logger.log(...); break` around the continuation
\* call: the error is logged and the loop is left.
OnContinuationError_Raises == "raise"
OnContinuationError == "break"

\* A continuation call raises or times out.
ContinuationFails(k) ==
    /\ gpc = "cont_call"
    /\ got' = Append(got, GatewayFailure(k))
    /\ elapsed' = IF k = "timeout" THEN Tick(TimeoutTicks) ELSE Tick(1)
    /\ timedOut' = (timedOut \/ k = "timeout")
    /\ IF OnContinuationError = "break"
       THEN /\ gpc' = "assembled"
            /\ asmDone' = TRUE
            /\ assembled' = Assemble(history)
            /\ UNCHANGED <<failure, lastExc>>
       ELSE /\ gpc' = "failed"
            /\ failure' = k
            /\ lastExc' = k
            /\ UNCHANGED <<asmDone, assembled>>
    /\ UNCHANGED <<cfg, attempt, history, turns, contRequests, repairCalls, output>>
    /\ UNCHANGED <<fanVars, obVars, splitVars, jsonVars, govVars, wkVars>>

(***************************************************************************)
(* fixing_parser.parse(assembled) and the return of ainvoke.  With the     *)
(* string parser the text comes back as it is and is stripped; with the    *)
(* schema parser the repair may still fail, which fails the attempt.       *)
(***************************************************************************)
RepairReturns ==
    /\ gpc = "assembled"
    /\ repairCalls' = repairCalls + 1
    /\ gpc' = "returned"
    /\ output' = IF cfg.kind = "structured"
                 THEN [kind |-> "object", text |-> assembled, cause |-> "none"]
                 ELSE [kind |-> "text", text |-> Strip(assembled), cause |-> "none"]
    /\ UNCHANGED <<cfg, attempt, history, turns, got, contRequests, asmDone,
                   assembled, failure, lastExc, elapsed, timedOut>>
    /\ UNCHANGED <<fanVars, obVars, splitVars, jsonVars, govVars, wkVars>>

RepairRaises_ParsesAgain ==
    /\ gpc = "assembled"
    /\ cfg.kind = "structured"
    /\ repairCalls < Retries
    /\ repairCalls' = repairCalls + 1
    /\ UNCHANGED <<cfg, attempt, gpc, history, turns, got, contRequests, asmDone,
                   assembled, failure, lastExc, elapsed, timedOut, output>>
    /\ UNCHANGED <<fanVars, obVars, splitVars, jsonVars, govVars, wkVars>>

RepairRaises ==
    /\ gpc = "assembled"
    /\ cfg.kind = "structured"
    /\ repairCalls' = repairCalls + 1
    /\ gpc' = "failed"
    /\ failure' = "parse"
    /\ lastExc' = "parse"
    /\ UNCHANGED <<cfg, attempt, history, turns, got, contRequests, asmDone,
                   assembled, elapsed, timedOut, output>>
    /\ UNCHANGED <<fanVars, obVars, splitVars, jsonVars, govVars, wkVars>>

(***************************************************************************)
(* `for attempt in range(retries)`: the next attempt calls the composed    *)
(* runnable again; after the last one ainvoke raises RuntimeError.         *)
(***************************************************************************)
Retry_OnceMore ==
    /\ gpc = "failed"
    /\ attempt <= Retries
    /\ attempt' = attempt + 1
    /\ gpc' = "initial_call"
    /\ history' = <<>>
    /\ turns' = 0
    /\ got' = <<>>
    /\ contRequests' = 0
    /\ asmDone' = FALSE
    /\ assembled' = NoText
    /\ failure' = "none"
    /\ repairCalls' = 0
    /\ UNCHANGED <<cfg, lastExc, elapsed, timedOut, output>>
    /\ UNCHANGED <<fanVars, obVars, splitVars, jsonVars, govVars, wkVars>>

Retry ==
    /\ gpc = "failed"
    /\ attempt < Retries
    /\ attempt' = attempt + 1
    /\ gpc' = "initial_call"
    /\ history' = <<>>
    /\ turns' = 0
    /\ got' = <<>>
    /\ contRequests' = 0
    /\ asmDone' = FALSE
    /\ assembled' = NoText
    /\ failure' = "none"
    /\ repairCalls' = 0
    /\ UNCHANGED <<cfg, lastExc, elapsed, timedOut, output>>
    /\ UNCHANGED <<fanVars, obVars, splitVars, jsonVars, govVars, wkVars>>

\* `raise RuntimeError(f"All {retries} retry attempts failed.") from last_exception`
RaisedAfterRetries(last) == [kind |-> "RuntimeError", text |-> NoText, cause |-> last]

GiveUp ==
    /\ gpc = "failed"
    /\ attempt >= Retries
    /\ gpc' = "raised"
    /\ output' = RaisedAfterRetries(lastExc)
    /\ UNCHANGED <<cfg, attempt, history, turns, got, contRequests, asmDone,
                   assembled, failure, lastExc, elapsed, timedOut, repairCalls>>
    /\ UNCHANGED <<fanVars, obVars, splitVars, jsonVars, govVars, wkVars>>

NextGen ==
    \/ \E r \in Replies, d \in 1..(TimeoutTicks - 1) : InitialReply(r, d)
    \/ \E k \in FailureKinds : InitialFails(k)
    \/ \E r \in Replies, d \in 1..(TimeoutTicks - 1) : ContinuationReply(r, d)
    \/ \E k \in FailureKinds : ContinuationFails(k)
    \/ RepairReturns
    \/ RepairRaises
    \/ Retry
    \/ GiveUp

SpecGen == InitGen /\ [][NextGen]_vars

(***************************************************************************)
(* Strings of the table extractor.  A string is a sequence of characters;  *)
(* a few substrings the code never looks inside are single characters of   *)
(* the model: the break marker "<br>", the terminator phrase "end of       *)
(* report" (in any letter case) and the two escape characters.             *)
(***************************************************************************)
Pipe == "|"
Sp == " "
Nl == "\n"
Dash == "-"
Colon == ":"
Star == "*"
Underscore == "_"
BR == "<br>"
EOR == "end of report"
DoubleBar == "DBLBAR"       \* the character put in place of "||"
BrokenBar == "BRKBAR"       \* the character put in place of "\|" and by smart_pipe_replace
Backslash == "BACKSLASH"

SWhitespace == {Sp, Nl}

\* str.split(c): the pieces between the occurrences of c
SplitOn(s, c) ==
    LET seps == {i \in 1..Len(s) : s[i] = c}
        n == Cardinality(seps)
        at(k) == IF k = 0 THEN 0
                 ELSE IF k = n + 1 THEN Len(s) + 1
                 ELSE CHOOSE i \in seps : Cardinality({j \in seps : j <= i}) = k
    IN  [k \in 1..(n + 1) |-> SubSeq(s, at(k - 1) + 1, at(k) - 1)]

\* sep.join(parts)
RECURSIVE JoinWith(_, _)
JoinWith(parts, sep) ==
    IF parts = <<>> THEN <<>>
    ELSE IF Len(parts) = 1 THEN parts[1]
         ELSE JoinWith(Front(parts), sep) \o sep \o Last(parts)

\* str.strip(), str.rstrip(), str.strip(chars)
LStripOf(s, cs) ==
    LET keep == {i \in 1..Len(s) : s[i] \notin cs}
    IN  IF keep = {} THEN <<>> ELSE SubSeq(s, SetMin(keep), Len(s))
RStripOf(s, cs) ==
    LET keep == {i \in 1..Len(s) : s[i] \notin cs}
    IN  IF keep = {} THEN <<>> ELSE SubSeq(s, 1, SetMax(keep))
StripOf(s, cs) == RStripOf(LStripOf(s, cs), cs)
SStrip(s) == StripOf(s, SWhitespace)
SRStrip(s) == RStripOf(s, SWhitespace)

\* str.replace(pat, rep): left to right, without overlap
RECURSIVE ReplaceSub(_, _, _)
ReplaceSub(s, pat, rep) ==
    LET found == {i \in 1..(Len(s) - Len(pat) + 1) : SubSeq(s, i, i + Len(pat) - 1) = pat}
    IN  IF found = {} THEN s
        ELSE LET i == SetMin(found)
             IN  SubSeq(s, 1, i - 1) \o rep
                    \o ReplaceSub(SubSeq(s, i + Len(pat), Len(s)), pat, rep)

\* str.replace(c, "") for every character c of cs
Without(s, cs) == SelectSeq(s, LAMBDA c : c \notin cs)

\* str.count(c)
CountOf(s, c) == Cardinality({i \in 1..Len(s) : s[i] = c})

\* str.find(c) and str.rfind(c), 1-based, 0 when c does not occur
FindFirst(s, c) == IF \E i \in 1..Len(s) : s[i] = c
                   THEN SetMin({i \in 1..Len(s) : s[i] = c}) ELSE 0
FindLast(s, c) == IF \E i \in 1..Len(s) : s[i] = c
                  THEN SetMax({i \in 1..Len(s) : s[i] = c}) ELSE 0

\* s.startswith("|") and s.endswith("|")
IsDelimited(s) == s # <<>> /\ s[1] = Pipe /\ Last(s) = Pipe

\* the list comprehension `[x for x in xs if keep(x)]`
Keep(xs, keep(_)) == SelectSeq(xs, keep)

\* first element of xs that satisfies ok, or none
FirstThat(xs, ok(_)) ==
    LET at == {i \in 1..Len(xs) : ok(xs[i])}
    IN  IF at = {} THEN 0 ELSE SetMin(at)

(***************************************************************************)
(* md_table_to_pydantic_list: sanitize_table.                              *)
(***************************************************************************)
\* re.fullmatch(r'\|[\s:\-|]+\|', s)
IsDividerRe(s) ==
    /\ Len(s) >= 3
    /\ s[1] = Pipe
    /\ Last(s) = Pipe
    /\ \A i \in 2..(Len(s) - 1) : s[i] \in SWhitespace \cup {Colon, Dash, Pipe}

\* _is_keyword_row(line).  Of the two phrases of KEYWORD_ROWS the model's
\* alphabet has the one without the final dot, for which the order in which
\* the set is walked makes no difference.
is_keyword_row(line) ==
    LET s == SStrip(line)
    IN  IF ~IsDelimited(s) THEN FALSE
        ELSE IF IsDividerRe(s) THEN FALSE
        ELSE LET inner == SubSeq(s, 2, Len(s) - 1)
                 rest == Without(inner, {EOR})
             IN  SStrip(Without(rest, {Sp, Dash, Colon, Pipe})) = <<>>

\* smart_pipe_replace(line): a '|' that has neither two spaces before it nor
\* two spaces after it becomes a literal character.
smart_pipe_replace(line) ==
    [j \in 1..Len(line) |->
        IF /\ j >= 3
           /\ j <= Len(line) - 2
           /\ line[j] = Pipe
           /\ (line[j - 2] # Sp \/ line[j - 1] # Sp)
           /\ (line[j + 2] # Sp \/ line[j + 1] # Sp)
        THEN BrokenBar
        ELSE line[j]]

\* line.split('|')[1:-1]
CellsOf(line) ==
    LET parts == SplitOn(line, Pipe)
    IN  SubSeq(parts, 2, Len(parts) - 1)

\* text.replace("||", DOUBLE BAR).replace("\\|", BROKEN BAR)
EscapeDelimiters(text) ==
    ReplaceSub(ReplaceSub(text, <<Pipe, Pipe>>, <<DoubleBar>>),
               <<Backslash, Pipe>>, <<BrokenBar>>)

\* Step 2: the column count, from the first divider row or else from the
\* first delimited row; 0 when there is none.
NumCols(clean_lines) ==
    LET d == FirstThat(clean_lines, LAMBDA l : IsDividerRe(SStrip(l)))
        r == FirstThat(clean_lines, LAMBDA l : IsDelimited(SStrip(l)))
        fromDivider == IF d = 0 THEN 0 ELSE CountOf(clean_lines[d], Pipe) - 1
    IN  IF fromDivider # 0 THEN fromDivider
        ELSE IF r = 0 THEN 0 ELSE CountOf(clean_lines[r], Pipe) - 1

\* re.sub(r'\|\s*<br>\s*\|', '|\n|', br_text)
\* the first position from i on that holds no whitespace
SkipWs(s, i) == SetMin({j \in i..(Len(s) + 1) : j > Len(s) \/ s[j] \notin SWhitespace})

\* where a match that starts at position i ends, 0 when none starts there
BreakMatchEnd(s, i) ==
    IF s[i] # Pipe THEN 0
    ELSE LET j == SkipWs(s, i + 1)
         IN  IF j > Len(s) \/ s[j] # BR THEN 0
             ELSE LET k == SkipWs(s, j + 1)
                  IN  IF k <= Len(s) /\ s[k] = Pipe THEN k ELSE 0

RECURSIVE RestoreRowBreaks(_)
RestoreRowBreaks(s) ==
    LET found == {i \in 1..Len(s) : BreakMatchEnd(s, i) > 0}
    IN  IF found = {} THEN s
        ELSE LET i == SetMin(found)
             IN  SubSeq(s, 1, i - 1) \o <<Pipe, Nl, Pipe>>
                    \o RestoreRowBreaks(SubSeq(s, BreakMatchEnd(s, i) + 1, Len(s)))

\* Step 5 for one line: where the line goes and in which form.
\*   "terminator": dropped, "kept": appended to fixed_text,
\*   "defective": appended to defective_lines.
ValidateRow(line, num_cols) ==
    IF is_keyword_row(line) THEN [line |-> line, to |-> "terminator", as |-> <<>>]
    ELSE IF IsDelimited(line)
         THEN IF Len(CellsOf(line)) # num_cols
              THEN LET fixed_line == smart_pipe_replace(line)
                   IN  IF Len(CellsOf(fixed_line)) # num_cols
                       THEN [line |-> line, to |-> "defective", as |-> line]
                       ELSE [line |-> line, to |-> "kept", as |-> SStrip(fixed_line)]
              ELSE [line |-> line, to |-> "kept", as |-> SStrip(line)]
         ELSE [line |-> line, to |-> "kept", as |-> SStrip(line)]

\* Steps 3 to 5: the rows are joined with <br>, broken again at the row
\* boundaries, and each is validated against the column count.
ValidatedRows(rows, num_cols) ==
    [ok |-> TRUE, err |-> "none",
     rows |-> [i \in 1..Len(rows) |-> ValidateRow(rows[i], num_cols)]]

RowsOfLines(clean_lines, num_cols) ==
    IF num_cols = 0
    THEN [ok |-> FALSE, err |-> "Unable to determine column count", rows |-> <<>>]
    ELSE ValidatedRows(
             SplitOn(SStrip(RestoreRowBreaks(
                 ReplaceSub(JoinWith(clean_lines, <<Nl>>), <<Nl>>, <<BR>>))), Nl),
             num_cols)

RowsOfClean(clean_lines) == RowsOfLines(clean_lines, NumCols(clean_lines))

CleanLines(lines) == Keep(lines, LAMBDA l : SStrip(l) # <<>>)

\* Step 1: the text between the first and the last '|', line by line
RowsBetween(text, first_pipe, last_pipe) ==
    IF first_pipe = 0 \/ first_pipe >= last_pipe
    THEN [ok |-> FALSE, err |-> "Table boundaries invalid", rows |-> <<>>]
    ELSE RowsOfClean(CleanLines(SplitOn(SStrip(SubSeq(text, first_pipe, last_pipe)), Nl)))

RowsOfEscaped(text) == RowsBetween(text, FindFirst(text, Pipe), FindLast(text, Pipe))

\* The rows sanitize_table validates, or why it raised before.
SanitizeRows(text0) == RowsOfEscaped(EscapeDelimiters(text0))

\* the form in which the rows that went to `to` were appended
FormsOf(rows) == [i \in 1..Len(rows) |-> rows[i].as]
AppendedTo(rows, to) == FormsOf(Keep(rows, LAMBDA r : r.to = to))

Sanitized(v) ==
    [ok |-> v.ok, err |-> v.err,
     text |-> JoinWith(AppendedTo(v.rows, "kept"), <<Nl>>),
     defective_lines |-> AppendedTo(v.rows, "defective")]

\* sanitize_table(text): `return "\n".join(fixed_text), defective_lines`
sanitize_table(text) == Sanitized(SanitizeRows(text))

(***************************************************************************)
(* md_table_to_pydantic_list: table blocks, itemized rows, records.        *)
(***************************************************************************)
\* column_id, the default of md_table_to_pydantic_list and of its caller
ColumnId == 0

\* the values a record's field can hold
StrVal(s) == [t |-> "str", s |-> s, n |-> 0]
IntVal(n) == [t |-> "int", s |-> <<>>, n |-> n]
NoneVal == [t |-> "None", s |-> <<>>, n |-> 0]

\* Record Schemas: the types of the (required) fields, in field order.
FieldTypes == {"str", "int"}

\* `len(stripped_line.replace("|", "").replace("-", "").replace(":", "").strip()) == 0`
IsDividerRow(s) == SStrip(Without(s, {Pipe, Dash, Colon})) = <<>>

\* One turn of `for line in md_text.split("\n")` on the state
\* (tables, current_table, table_found).
BlockStep_KeepsHeader(st, line) ==
    LET stripped_line == SStrip(line)
    IN  IF IsDelimited(stripped_line)
        THEN IF IsDividerRow(stripped_line)
             THEN [st EXCEPT !.table_found = TRUE]
             ELSE [st EXCEPT !.current_table = Append(@, stripped_line)]
        ELSE IF stripped_line = <<>> THEN st
             ELSE IF st.current_table # <<>>
                  THEN [st EXCEPT !.tables = Append(@, st.current_table),
                                  !.current_table = <<>>]
                  ELSE st

BlockStep(st, line) ==
    LET stripped_line == SStrip(line)
    IN  IF IsDelimited(stripped_line)
        THEN IF IsDividerRow(stripped_line)
             THEN [st EXCEPT !.table_found = TRUE,
                             !.current_table = IF Len(@) = 1 THEN <<>> ELSE @]
             ELSE [st EXCEPT !.current_table = Append(@, stripped_line)]
        ELSE IF stripped_line = <<>> THEN st
             ELSE IF st.current_table # <<>>
                  THEN [st EXCEPT !.tables = Append(@, st.current_table),
                                  !.current_table = <<>>]
                  ELSE st

RECURSIVE ScanBlocks(_, _)
ScanBlocks(lines, st) ==
    IF lines = <<>> THEN st
    ELSE ScanBlocks(Tail(lines), BlockStep(st, Head(lines)))

\* the table blocks and table_found after the loop and `if current_table:`
TableBlocks(md_text) ==
    LET st == ScanBlocks(SplitOn(md_text, Nl),
                         [tables |-> <<>>, current_table |-> <<>>, table_found |-> FALSE])
    IN  [tables |-> IF st.current_table # <<>>
                    THEN Append(st.tables, st.current_table)
                    ELSE st.tables,
         table_found |-> st.table_found]

\* [str(col).rstrip() for col in row.split("|")]
RColsOf(row) ==
    LET parts == SplitOn(row, Pipe)
    IN  [i \in 1..Len(parts) |-> SRStrip(parts[i])]

\* the first row the `for` loop merges: not the first of the block, with an
\* empty identifier column; 0 when the loop runs to its end
FirstItemized(table_rows) ==
    FirstThat([i \in 1..Len(table_rows) |-> [i |-> i, cols |-> RColsOf(table_rows[i])]],
              LAMBDA r : /\ r.i # 1
                         /\ Len(r.cols) >= ColumnId + 1
                         /\ r.cols[ColumnId + 1] = <<>>)

\* parent_cols[j] = parent_col + " <br> " + cols[j] if j != column_id else parent_col
MergeInto(parent_row, row) ==
    LET cols == RColsOf(row)
        parent_cols == RColsOf(parent_row)
    IN  IF Len(cols) < Len(parent_cols)
        THEN [ok |-> FALSE, row |-> <<>>]
        ELSE [ok |-> TRUE,
              row |-> JoinWith([j \in 1..Len(parent_cols) |->
                                   IF j # ColumnId + 1
                                   THEN parent_cols[j] \o <<Sp, BR, Sp>> \o cols[j]
                                   ELSE parent_cols[j]],
                               <<Pipe>>)]

\* table_rows once row i was merged into row i - 1: `table_rows[i - 1] =
\* "|".join(parent_cols)` and `table_rows.pop(i)`
AfterMerge(table_rows, i, row) ==
    [k \in 1..(Len(table_rows) - 1) |->
        IF k < i - 1 THEN table_rows[k]
        ELSE IF k = i - 1 THEN row
        ELSE table_rows[k + 1]]

\* The `while True` loop: merge the first itemized row into the row before
\* it and start over; the loop is left when the `for` stopped at the index
\* that is now the last one (i_h == len(table_rows) - 1), which is the case
\* when it ran to its end and also when it merged the row before the last.
RECURSIVE MergeItemized(_)
MergeStep(table_rows, i, m) ==
    IF ~m.ok THEN [ok |-> FALSE, rows |-> table_rows]
    ELSE IF i - 1 = Len(table_rows) - 2
         THEN [ok |-> TRUE, rows |-> AfterMerge(table_rows, i, m.row)]
         ELSE MergeItemized(AfterMerge(table_rows, i, m.row))

MergeFrom(table_rows, i) ==
    IF i = 0 THEN [ok |-> TRUE, rows |-> table_rows]
    ELSE MergeStep(table_rows, i, MergeInto(table_rows[i - 1], table_rows[i]))

MergeItemized(table_rows) == MergeFrom(table_rows, FirstItemized(table_rows))

\* remove_markdown(text)
remove_markdown(text) ==
    LET t1 == ReplaceSub(text, <<Star, Star, Star>>, <<Sp>>)
        t2 == ReplaceSub(t1, <<Star, Star>>, <<Sp>>)
        t3 == ReplaceSub(t2, <<Sp, Underscore>>, <<Sp>>)
        t4 == ReplaceSub(t3, <<Underscore, Sp>>, <<Sp>>)
    IN  SStrip(t4)

\* str.isdigit() and int(str) on the digits of the model's alphabet
DigitChars == <<"0", "1", "2", "3", "4", "5", "6", "7", "8", "9">>
IsDigits(s) == s # <<>> /\ \A i \in 1..Len(s) : \E d \in 1..10 : DigitChars[d] = s[i]
RECURSIVE IntOf(_)
IntOf(s) ==
    IF s = <<>> THEN 0
    ELSE 10 * IntOf(Front(s)) + ((CHOOSE d \in 1..10 : DigitChars[d] = Last(s)) - 1)

\* the conversion of one cell to the type of its field
CoerceCell(field_type, col) ==
    IF field_type = "int"
    THEN IF IsDigits(col) THEN IntVal(IntOf(col)) ELSE NoneVal
    ELSE StrVal(col)

\* data_dict of one row: the fields, in order, for which the row has a column
DataDict(row, schema) ==
    LET parts == SplitOn(row, Pipe)
        cols == [i \in 1..Len(parts) |-> SStrip(remove_markdown(parts[i]))]
    IN  [i \in 1..MinOf(Len(cols), Len(schema)) |-> CoerceCell(schema[i], cols[i])]

\* model(**data_dict): every field of the schema is required and takes no None
Validates(data_dict, schema) ==
    /\ Len(data_dict) = Len(schema)
    /\ \A i \in 1..Len(data_dict) : data_dict[i] # NoneVal

\* the records of the rows of one block, or the ValidationError of model(**data_dict)
RecordsOf(dicts, schema) ==
    IF \E i \in 1..Len(dicts) : ~Validates(dicts[i], schema)
    THEN [ok |-> FALSE, err |-> "ValidationError", records |-> <<>>]
    ELSE [ok |-> TRUE, err |-> "none", records |-> dicts]

\* the records of the merged rows, or the IndexError of the merge
RecordsOfMerged(merged, schema) ==
    IF ~merged.ok THEN [ok |-> FALSE, err |-> "IndexError", records |-> <<>>]
    ELSE RecordsOf([i \in 1..Len(merged.rows) |-> DataDict(merged.rows[i], schema)], schema)

\* the records of one table block, or the failure of the block
BlockRecords(table, schema) ==
    RecordsOfMerged(MergeItemized([i \in 1..Len(table) |-> SStrip(StripOf(table[i], {Pipe}))]),
                    schema)

RECURSIVE FlattenSeqs(_)
FlattenSeqs(ss) == IF ss = <<>> THEN <<>> ELSE Head(ss) \o FlattenSeqs(Tail(ss))

\* What md_table_to_pydantic_list hands back:
\*   "tuple": (instances, defective_lines), "list": the bare [],
\*   "None": the bare None, "raise": an exception.
TupleResult(records, defective_lines) ==
    [shape |-> "tuple", records |-> records, defective_lines |-> defective_lines, err |-> "none"]
BareEmptyList == [shape |-> "list", records |-> <<>>, defective_lines |-> <<>>, err |-> "none"]
BareNone == [shape |-> "None", records |-> <<>>, defective_lines |-> <<>>, err |-> "none"]
Raised(e) == [shape |-> "raise", records |-> <<>>, defective_lines |-> <<>>, err |-> e]

\* `return instances, defective_lines`, or the exception of the first block that fails
Collected(blocks, defective_lines) ==
    IF \E i \in 1..Len(blocks) : ~blocks[i].ok
    THEN Raised(blocks[SetMin({i \in 1..Len(blocks) : ~blocks[i].ok})].err)
    ELSE TupleResult(FlattenSeqs([i \in 1..Len(blocks) |-> blocks[i].records]),
                     defective_lines)

\* `if not tables: if table_found: return []` and `return None`, else one
\* list of records per block
FromBlocks(b, defective_lines, schema) ==
    IF b.tables = <<>>
    THEN IF b.table_found THEN BareEmptyList ELSE BareNone
    ELSE Collected([i \in 1..Len(b.tables) |-> BlockRecords(b.tables[i], schema)],
                   defective_lines)

\* `md_text, defective_lines = sanitize_table(md_text)` raised, or the block scan
FromSanitized(s, schema) ==
    IF ~s.ok THEN Raised(s.err)
    ELSE FromBlocks(TableBlocks(s.text), s.defective_lines, schema)

md_table_to_pydantic_list(md_text, schema) ==
    FromSanitized(sanitize_table(md_text), schema)

(***************************************************************************)
(* serialize_pydantic_objects_to_table.                                    *)
(***************************************************************************)
\* str(value) of a field
RECURSIVE DigitsOf(_)
DigitsOf(n) ==
    IF n < 10 THEN <<DigitChars[n + 1]>>
    ELSE Append(DigitsOf(n \div 10), DigitChars[(n % 10) + 1])

StrOf(value) ==
    IF value.t = "int" THEN DigitsOf(value.n)
    ELSE IF value.t = "None" THEN <<"N", "o", "n", "e">>
    ELSE value.s

\* the header cell of a field: its description, or else its name
HeaderOf(i) == <<"h">>

\* "| " + " | ".join(cells) + " |"
RowOf(cells) == <<Pipe, Sp>> \o JoinWith(cells, <<Sp, Pipe, Sp>>) \o <<Sp, Pipe>>

serialize_pydantic_objects_to_table(pydantic_objects, schema) ==
    IF pydantic_objects = <<>> THEN <<"No data available.">>
    ELSE LET headers == [i \in 1..Len(schema) |-> HeaderOf(i)]
             separator == RowOf([i \in 1..Len(headers) |->
                                    [k \in 1..Len(headers[i]) |-> Dash]])
             header_row == RowOf(headers)
             rows == [r \in 1..Len(pydantic_objects) |->
                         RowOf([i \in 1..Len(schema) |->
                                   ReplaceSub(StrOf(pydantic_objects[r][i]), <<Nl>>, <<BR>>)])]
         IN  JoinWith(<<header_row, separator>> \o rows, <<Nl>>)

(***************************************************************************)
(* create_fallback_recordset: extract_tables, merge_tables and             *)
(* split_into_recordsets.                                                  *)
(***************************************************************************)
\* the row count obnoxious_text_to_pydantic_list asks for
FallbackRowCount == 20

\* `len(line.replace("|", "").replace("-", "").strip()) == 0`: the separator
\* test of the fallback scan, which does not take ':' for part of a divider
IsSeparator(line) == SStrip(Without(line, {Pipe, Dash})) = <<>>

\* md_text[md_text.find('|'):md_text.rfind('|') + 1]; with no '|' both finds
\* give -1 and the slice is empty
BetweenPipes(md_text) ==
    IF FindFirst(md_text, Pipe) = 0 THEN <<>>
    ELSE SubSeq(md_text, FindFirst(md_text, Pipe), FindLast(md_text, Pipe))

\* One turn of the loop of extract_tables on the state (tables,
\* current_table, table_found, pending_header, last_was_separator);
\* pending_header None is the empty string here, both are falsy.
ExtractStep(st, line) ==
    LET stripped_line == SStrip(line)
    IN  IF IsDelimited(stripped_line)
        THEN IF IsSeparator(stripped_line)
             THEN IF st.pending_header # <<>>
                  THEN [st EXCEPT !.table_found = TRUE,
                                  !.current_table = <<st.pending_header, stripped_line>>,
                                  !.pending_header = <<>>,
                                  !.last_was_separator = TRUE]
                  ELSE [st EXCEPT !.table_found = TRUE, !.last_was_separator = TRUE]
             ELSE IF st.last_was_separator
                  THEN [st EXCEPT !.current_table = Append(@, stripped_line),
                                  !.last_was_separator = FALSE]
                  ELSE IF st.current_table # <<>>
                       THEN [st EXCEPT !.current_table = Append(@, stripped_line)]
                       ELSE [st EXCEPT !.pending_header = stripped_line]
        ELSE IF stripped_line = <<>> THEN st
             ELSE LET closed ==
                          IF st.current_table # <<>>
                          THEN [st EXCEPT !.tables = Append(@, st.current_table),
                                          !.current_table = <<>>]
                          ELSE IF st.pending_header # <<>> /\ st.table_found
                               THEN [st EXCEPT !.tables = Append(@, <<st.pending_header>>)]
                               ELSE st
                  IN  [closed EXCEPT !.pending_header = <<>>, !.last_was_separator = FALSE]

RECURSIVE ExtractScan(_, _)
ExtractScan(lines, st) ==
    IF lines = <<>> THEN st
    ELSE ExtractScan(Tail(lines), ExtractStep(st, Head(lines)))

\* extract_tables(md_text); both `[]` and None are the empty sequence, which
\* is all merge_tables asks of them (`if not tables`)
extract_tables(md_text) ==
    LET text == BetweenPipes(EscapeDelimiters(md_text))
        st == ExtractScan(SplitOn(text, Nl),
                          [tables |-> <<>>, current_table |-> <<>>, table_found |-> FALSE,
                           pending_header |-> <<>>, last_was_separator |-> FALSE])
    IN  IF st.current_table # <<>> THEN Append(st.tables, st.current_table)
        ELSE IF st.pending_header # <<>> THEN Append(st.tables, <<st.pending_header>>)
        ELSE st.tables

\* the lines merge_tables keeps of a table that is not the first one
MergedLinesOf(table) ==
    LET line(i) == SStrip(table[i])
        rest(from) == Keep([i \in 1..(Len(table) - from + 1) |-> line(from + i - 1)],
                           LAMBDA l : ~IsSeparator(l))
    IN  IF table = <<>> THEN <<>>
        ELSE IF IsSeparator(line(1)) THEN rest(2)
        ELSE IF Len(table) >= 2
             THEN IF IsSeparator(line(2)) THEN rest(3)
                  ELSE <<line(1), line(2)>> \o rest(3)
             ELSE <<line(1)>>

merge_tables(tables) ==
    IF tables = <<>> THEN <<>>
    ELSE tables[1] \o FlattenSeqs([i \in 1..(Len(tables) - 1) |-> MergedLinesOf(tables[i + 1])])

\* split_into_recordsets(merged_lines, row_count)
split_into_recordsets(merged_lines, row_count) ==
    IF merged_lines = <<>> \/ row_count < 1 THEN <<>>
    ELSE LET has_header == Len(merged_lines) >= 2 /\ IsSeparator(merged_lines[2])
             header == IF has_header THEN SubSeq(merged_lines, 1, 2) ELSE <<>>
             data_start == IF has_header THEN 2 ELSE 0
             data_lines == SubSeq(merged_lines, data_start + 1, Len(merged_lines))
             nchunks == (Len(data_lines) + row_count - 1) \div row_count
         IN  [c \in 1..nchunks |->
                 header \o SubSeq(data_lines, (c - 1) * row_count + 1,
                                  MinOf(c * row_count, Len(data_lines)))]

create_fallback_recordset(data, row_count) ==
    split_into_recordsets(merge_tables(extract_tables(data)), row_count)

\* extract_defective_lines_header_rows(md_text)
RECURSIVE HeaderScan(_, _)
HeaderScan(lines, pending_header) ==
    IF lines = <<>> THEN <<>>
    ELSE LET stripped_line == SStrip(Head(lines))
         IN  IF IsDelimited(stripped_line)
             THEN IF IsSeparator(stripped_line)
                  THEN IF pending_header # <<>>
                       THEN <<pending_header, stripped_line>>
                       ELSE HeaderScan(Tail(lines), pending_header)
                  ELSE HeaderScan(Tail(lines), stripped_line)
             ELSE IF stripped_line = <<>> THEN HeaderScan(Tail(lines), pending_header)
                  ELSE HeaderScan(Tail(lines), <<>>)

extract_defective_lines_header_rows(md_text) ==
    HeaderScan(SplitOn(BetweenPipes(md_text), Nl), <<>>)

(***************************************************************************)
(* obnoxious_text_to_pydantic_list: the texts it is called with.           *)
(***************************************************************************)
Fence == "FENCE"              \* the three backticks that open or close a code block
SectionMark == "### ::"

Row_Ax == <<Pipe, Sp, "A", Sp, Pipe, Sp, "x", Sp, Pipe>>                          \* | A | x |
Row_B7 == <<Pipe, Sp, Star, Star, "B", Star, Star, Sp, Pipe, Sp, "7", Sp, Pipe>>  \* | **B** | 7 |
Row_ey == <<Pipe, Sp, Sp, Pipe, Sp, "y", Sp, Pipe>>                               \* |  | y |
Row_divider == <<Pipe, Dash, Dash, Dash, Pipe, Dash, Dash, Dash, Pipe>>           \* |---|---|
Row_abc == <<Pipe, Sp, "a", Sp, Pipe, Sp, "b", Sp, Pipe, Sp, "c", Sp, Pipe>>      \* | a | b | c |
Row_end == <<Pipe, Sp, EOR, Sp, Pipe, Sp, Sp, Pipe>>                              \* | End of report |  |
Line_prose == <<"p">>                                                             \* a line of prose
LineSet == {Row_Ax, Row_B7, Row_ey, Row_divider, Row_abc, Row_end, Line_prose}

SectionText == <<SectionMark, "a", Nl, "b">>
JsonText == <<Fence, Nl, "[", "]", Nl, Fence>>

TableTexts == {JoinWith(ls, <<Nl>>) : ls \in UNION {[1..n -> LineSet] : n \in 1..MaxLines}}

\* texts in which table rows, section markers and fence lines come together
Line_section == <<SectionMark, "a">>                                              \* ### ::a
Line_fence == <<Fence>>
MarkedLineSet == {Row_Ax, Line_section, Line_fence}
MarkedTexts ==
    {JoinWith(ls, <<Nl>>) : ls \in UNION {[1..n -> MarkedLineSet] : n \in 1..MaxMarked}}

\* tables with a header row, its divider and further dividers among the rows
DividedTexts ==
    {JoinWith(<<Row_Ax, Row_divider>> \o ls, <<Nl>>) :
        ls \in UNION {[1..n -> {Row_B7, Row_divider}] : n \in 1..MaxDivided}}

Texts == TableTexts \cup {SectionText, JsonText} \cup MarkedTexts \cup DividedTexts

Schemas == {<<"str", "str">>, <<"str", "int">>}

\* str.splitlines() on texts whose only line break is "\n"
DropLastEmpty(parts) == IF Last(parts) = <<>> THEN Front(parts) ELSE parts
SplitLines(s) == DropLastEmpty(SplitOn(s, Nl))

StartsWith(s, c) == s # <<>> /\ s[1] = c

\* the three tests in the `try` block
PathOf(table_lines, backtick_lines, report_lines) ==
    IF table_lines = 0 /\ report_lines = 0 /\ backtick_lines = 2
    THEN "json"
    ELSE IF report_lines > 0 THEN "section" ELSE "table"

CountLines(lines, ok(_)) == Cardinality({i \in 1..Len(lines) : ok(lines[i])})

PathOfLines(lines) ==
    PathOf(CountLines(lines, LAMBDA l : IsDelimited(SStrip(l))),
           CountLines(lines, LAMBDA l : StartsWith(SStrip(l), Fence)),
           CountLines(lines, LAMBDA l : StartsWith(SStrip(l), SectionMark)))

SelectPath(data) == PathOfLines(SplitLines(data))

\* What the extraction called in the `try` block can do.  The table extractor
\* is computed; json_to_pydantic_list gives records, None or an exception and
\* parse_report_sections gives records or an exception.
CalleeOutcomes(path) ==
    IF path = "json" THEN {"records", "None", "raise"}
    ELSE IF path = "section" THEN {"records", "raise"}
    ELSE {"computed"}

\* a record as the Gateway's repair or the section and JSON extraction hand
\* it back: its text fields may hold delimiters and line breaks
SampleRecord(schema) ==
    [i \in 1..Len(schema) |->
        IF schema[i] = "int" THEN IntVal(1) ELSE StrVal(<<"r", Pipe, Nl, "s">>)]

\* getattr(await backup_chain.ainvoke(...), "items")
RepairItems(schema) == {<<>>, <<SampleRecord(schema)>>}

\* `instances, defective_lines = self.md_table_to_pydantic_list(...)`: only a
\* pair unpacks; the bare [] and the bare None raise here.
Unpacks(r) == r.shape = "tuple"

\* `except Exception as e:` in the chunk loop of execute_emergency_fallback_call
RepairErrorIs_Raised == "raised"
RepairErrorIs == "absorbed"

PyList(items) == [none |-> FALSE, items |-> items]

\* `[data] if not isDataInTableFormat else create_fallback_recordset(data, 20)`
\* and `if not recordsets: recordsets = [data]`; a chunk is a list of lines
OrWholeText(recordsets, data) == IF recordsets = <<>> THEN <<<<data>>>> ELSE recordsets

FallbackRecordsets(data, isDataInTableFormat) ==
    OrWholeText(IF ~isDataInTableFormat THEN <<<<data>>>>
                ELSE create_fallback_recordset(data, FallbackRowCount),
                data)

\* value.replace("||", "or").replace("|", "or").replace("\n", "<br>")
CleanValue_PipesOnly(value) ==
    IF value.t # "str" THEN value
    ELSE StrVal(ReplaceSub(ReplaceSub(value.s, <<Pipe, Pipe>>, <<"or">>),
                           <<Pipe>>, <<"or">>))
CleanValue(value) ==
    IF value.t # "str" THEN value
    ELSE StrVal(ReplaceSub(ReplaceSub(ReplaceSub(value.s, <<Pipe, Pipe>>, <<"or">>),
                                      <<Pipe>>, <<"or">>),
                           <<Nl>>, <<BR>>))
CleanUp(items) == [r \in 1..Len(items) |-> [i \in 1..Len(items[r]) |-> CleanValue(items[r][i])]]

InitOb ==
    /\ FanIdle
    /\ GenIdle
    /\ SplitIdle
    /\ JsonIdle
    /\ GovIdle
    /\ WkIdle
    /\ obData \in Texts
    /\ obSchema \in Schemas
    /\ obPc = "start"
    /\ obPath = "none"
    /\ obTab = NoTab
    /\ obExc = FALSE
    /\ obInstances = PyNoneList
    /\ obDefective = PyNoneList
    /\ obRecordsets = <<>>
    /\ obSent = <<>>
    /\ obAbsorbed = 0
    /\ obAgain = NoTab
    /\ obRet = PyNoneList

\* where the operation goes once `instances` and `defective_lines` are set
AfterExtraction(inst, bad) ==
    IF inst.none THEN "fallback"
    ELSE IF bad.items # <<>> THEN "defective" ELSE "cleanup"

\* `instances` after the `try` block: None after any Exception, the failed
\* unpacking included
InstancesOf(path, r, o) ==
    IF path = "table"
    THEN IF Unpacks(r) THEN PyList(r.records) ELSE PyNoneList
    ELSE IF o = "records" THEN PyList(<<SampleRecord(obSchema)>>) ELSE PyNoneList

\* `defective_lines` after the `try` block
DefectiveOf(path, r) ==
    IF path = "table" /\ Unpacks(r) THEN PyList(r.defective_lines) ELSE PyNoneList

\* `if instances is None:` prepares the fallback: instances = [] and the recordsets
Prepared(path, inst, bad) ==
    /\ obInstances' = IF inst.none THEN PyList(<<>>) ELSE inst
    /\ obDefective' = bad
    /\ obRecordsets' = IF inst.none
                       THEN FallbackRecordsets(obData, path = "table")
                       ELSE <<>>
    /\ obPc' = AfterExtraction(inst, bad)

\* the `try` block ended in `except Exception`: the extraction raised, or
\* what the table extractor returned did not unpack
TryFailed(path, r, o) == IF path = "table" THEN ~Unpacks(r) ELSE o = "raise"

Extracted(path, r, o) ==
    /\ obTab' = r
    /\ obExc' = TryFailed(path, r, o)
    /\ Prepared(path, InstancesOf(path, r, o), DefectiveOf(path, r))

ExtractOn(path, o) ==
    /\ o \in CalleeOutcomes(path)
    /\ obPath' = path
    /\ Extracted(path,
                 IF path = "table" THEN md_table_to_pydantic_list(obData, obSchema) ELSE NoTab,
                 o)

(***************************************************************************)
(* The `try` block: the extraction is chosen and run; any Exception,       *)
(* the failed unpacking included, leaves instances None.                   *)
(***************************************************************************)
Extract(o) ==
    /\ obPc = "start"
    /\ ExtractOn(SelectPath(obData), o)
    /\ UNCHANGED <<obData, obSchema, obSent, obAbsorbed, obAgain, obRet>>
    /\ UNCHANGED <<fanVars, genVars, splitVars, jsonVars, govVars, wkVars>>

\* where the operation goes after the fallback call
AfterFallback == IF obDefective.items # <<>> THEN "defective" ELSE "cleanup"

(***************************************************************************)
(* execute_emergency_fallback_call over the recordsets: the next chunk is  *)
(* submitted and its records are added, or the call raises, which ends     *)
(* the loop with what was gathered.                                        *)
(***************************************************************************)
FallbackChunkReturns(items) ==
    /\ obPc = "fallback"
    /\ Len(obSent) < Len(obRecordsets)
    /\ items \in RepairItems(obSchema)
    /\ obSent' = Append(obSent, obRecordsets[Len(obSent) + 1])
    /\ obInstances' = PyList(obInstances.items \o items)
    /\ obPc' = IF Len(obSent) + 1 = Len(obRecordsets) THEN AfterFallback ELSE "fallback"
    /\ UNCHANGED <<obData, obSchema, obPath, obTab, obExc, obDefective, obRecordsets,
                   obAbsorbed, obAgain, obRet>>
    /\ UNCHANGED <<fanVars, genVars, splitVars, jsonVars, govVars, wkVars>>

\* the `try` inside the `for rs in recordsets` loop: the loop goes on with the next chunk
FallbackChunkRaises_NextChunk ==
    /\ obPc = "fallback"
    /\ Len(obSent) < Len(obRecordsets)
    /\ obSent' = Append(obSent, obRecordsets[Len(obSent) + 1])
    /\ obPc' = IF Len(obSent) + 1 = Len(obRecordsets) THEN AfterFallback ELSE "fallback"
    /\ obAbsorbed' = obAbsorbed + 1
    /\ UNCHANGED <<obData, obSchema, obPath, obTab, obExc, obInstances, obDefective,
                   obRecordsets, obAgain, obRet>>
    /\ UNCHANGED <<fanVars, genVars, splitVars, jsonVars, govVars, wkVars>>

FallbackChunkRaises ==
    /\ obPc = "fallback"
    /\ Len(obSent) < Len(obRecordsets)
    /\ obSent' = Append(obSent, obRecordsets[Len(obSent) + 1])
    /\ IF RepairErrorIs = "absorbed"
       THEN /\ obPc' = AfterFallback
            /\ obAbsorbed' = obAbsorbed + 1
       ELSE /\ obPc' = "raised"
            /\ UNCHANGED obAbsorbed
    /\ UNCHANGED <<obData, obSchema, obPath, obTab, obExc, obInstances, obDefective,
                   obRecordsets, obAgain, obRet>>
    /\ UNCHANGED <<fanVars, genVars, splitVars, jsonVars, govVars, wkVars>>

\* the one recordset made of the recovered header and the defective lines
DefectiveRecordset ==
    extract_defective_lines_header_rows(obData) \o obDefective.items

(***************************************************************************)
(* `if defective_lines:` the defective lines are retried on their own.     *)
(***************************************************************************)
DefectiveReturns(items) ==
    /\ obPc = "defective"
    /\ items \in RepairItems(obSchema)
    /\ obSent' = Append(obSent, DefectiveRecordset)
    /\ obInstances' = PyList(obInstances.items \o items)
    /\ obPc' = "cleanup"
    /\ UNCHANGED <<obData, obSchema, obPath, obTab, obExc, obDefective, obRecordsets,
                   obAbsorbed, obAgain, obRet>>
    /\ UNCHANGED <<fanVars, genVars, splitVars, jsonVars, govVars, wkVars>>

DefectiveRaises ==
    /\ obPc = "defective"
    /\ obSent' = Append(obSent, DefectiveRecordset)
    /\ IF RepairErrorIs = "absorbed"
       THEN /\ obPc' = "cleanup"
            /\ obAbsorbed' = obAbsorbed + 1
       ELSE /\ obPc' = "raised"
            /\ UNCHANGED obAbsorbed
    /\ UNCHANGED <<obData, obSchema, obPath, obTab, obExc, obInstances, obDefective,
                   obRecordsets, obAgain, obRet>>
    /\ UNCHANGED <<fanVars, genVars, splitVars, jsonVars, govVars, wkVars>>

(***************************************************************************)
(* The clean-up of the string fields and `return instances`.               *)
(***************************************************************************)
Return ==
    /\ obPc = "cleanup"
    /\ obRet' = PyList(CleanUp(obInstances.items))
    /\ obPc' = "returned"
    /\ UNCHANGED <<obData, obSchema, obPath, obTab, obExc, obInstances, obDefective,
                   obRecordsets, obSent, obAbsorbed, obAgain>>
    /\ UNCHANGED <<fanVars, genVars, splitVars, jsonVars, govVars, wkVars>>

(***************************************************************************)
(* The records the table extractor gave are serialized and extracted       *)
(* again with the same schema.                                             *)
(***************************************************************************)
ReExtract ==
    /\ obPc = "returned"
    /\ obTab.shape = "tuple"
    /\ obTab.records # <<>>
    /\ obAgain = NoTab
    /\ obAgain' = md_table_to_pydantic_list(
                      serialize_pydantic_objects_to_table(obTab.records, obSchema), obSchema)
    /\ UNCHANGED <<obData, obSchema, obPc, obPath, obTab, obExc, obInstances, obDefective,
                   obRecordsets, obSent, obAbsorbed, obRet>>
    /\ UNCHANGED <<fanVars, genVars, splitVars, jsonVars, govVars, wkVars>>

NextOb ==
    \/ \E o \in {"computed", "records", "None", "raise"} : Extract(o)
    \/ \E items \in UNION {RepairItems(s) : s \in Schemas} : FallbackChunkReturns(items)
    \/ FallbackChunkRaises
    \/ \E items \in UNION {RepairItems(s) : s \in Schemas} : DefectiveReturns(items)
    \/ DefectiveRaises
    \/ Return
    \/ ReExtract

SpecOb == InitOb /\ [][NextOb]_vars

(***************************************************************************)
(* split_into_recordsets on its own: any list of lines, any row count.     *)
(***************************************************************************)
Row_colons == <<Pipe, Colon, Dash, Dash, Pipe, Colon, Dash, Dash, Pipe>>      \* |:--|:--|
SplitLineSet == {Row_Ax, Row_ey, Row_divider, Row_colons}

InitSplit ==
    /\ FanIdle
    /\ GenIdle
    /\ ObIdle
    /\ JsonIdle
    /\ GovIdle
    /\ WkIdle
    /\ spLines \in UNION {[1..n -> SplitLineSet] : n \in 0..MaxMerged}
    /\ spCount \in 0..MaxRowCount
    /\ spPc = "start"
    /\ spOut = <<>>

Split ==
    /\ spPc = "start"
    /\ spOut' = split_into_recordsets(spLines, spCount)
    /\ spPc' = "done"
    /\ UNCHANGED <<spLines, spCount>>
    /\ UNCHANGED <<fanVars, genVars, obVars, jsonVars, govVars, wkVars>>

NextSplit == Split

SpecSplit == InitSplit /\ [][NextSplit]_vars

(***************************************************************************)
(* json_to_pydantic_list: the loop that builds one record per item.  An    *)
(* item is a dict, written as the sequence of its <<key, value>> pairs in  *)
(* insertion order; a field is its name and its type.                      *)
(***************************************************************************)
Field(name, type) == [name |-> name, type |-> type]

\* str.lower() on the letters of the keys
LowerLetter(c) ==
    IF c = "I" THEN "i" ELSE IF c = "D" THEN "d" ELSE IF c = "V" THEN "v" ELSE c
KeyLower(k) == [i \in 1..Len(k) |-> LowerLetter(k[i])]

\* item.get(key, ""): the value stored under exactly this key
ItemGet(item, key) ==
    IF \E i \in 1..Len(item) : item[i][1] = key
    THEN item[CHOOSE i \in 1..Len(item) : item[i][1] = key][2]
    ELSE StrVal(<<>>)

\* normalized_keys = {k.lower(): k for k in item.keys()} and
\* `normalized_keys.get(field.lower(), None)`: of the keys with the same
\* lower-case form the one inserted last; <<>> stands for None
matching_key(item, field) ==
    LET at == {i \in 1..Len(item) : KeyLower(item[i][1]) = KeyLower(field)}
    IN  IF at = {} THEN <<>> ELSE item[SetMax(at)][1]

\* `value = item.get(matching_key, "")` followed by `value = item.get(field, "")`
LookedUp_ByMatchingKey(item, field) == ItemGet(item, matching_key(item, field))
LookedUp(item, field) == ItemGet(item, field)

\* reduce_json_complex_value on a value that is neither list nor dict
reduce_json_complex_value(value) ==
    IF value.t = "int" THEN StrVal(DigitsOf(value.n)) ELSE StrVal(SStrip(value.s))

\* str(value).isdigit() and int(value)
JsonInt(value) ==
    IF value.t = "int" THEN value
    ELSE IF IsDigits(value.s) THEN IntVal(IntOf(value.s)) ELSE NoneVal

\* the conversion of the value to the type of the field
JsonCoerce(field_type, value) ==
    IF field_type = "str"
    THEN IF value.t # "str" THEN reduce_json_complex_value(value) ELSE value
    ELSE JsonInt(value)

\* item_data: for every field, in order, [set |-> FALSE] if no key of the
\* item matches it, else the converted value
ItemData(item, schema) ==
    [f \in 1..Len(schema) |->
        IF matching_key(item, schema[f].name) = <<>>
        THEN [set |-> FALSE, value |-> NoneVal]
        ELSE [set |-> TRUE,
              value |-> JsonCoerce(schema[f].type, LookedUp(item, schema[f].name))]]

\* model(**item_data): every field is required and takes no None
ItemValidates(item_data) ==
    \A f \in 1..Len(item_data) : item_data[f].set /\ item_data[f].value # NoneVal

\* `for item in items: ... instances.append(model(**item_data))`
RecordsOfItems(datas) ==
    IF \E i \in 1..Len(datas) : ~ItemValidates(datas[i])
    THEN Raised("ValidationError")
    ELSE [shape |-> "list",
          records |-> [i \in 1..Len(datas) |->
                          [f \in 1..Len(datas[i]) |-> datas[i][f].value]],
          defective_lines |-> <<>>, err |-> "none"]

json_to_pydantic_list(items, schema) ==
    RecordsOfItems([i \in 1..Len(items) |-> ItemData(items[i], schema)])

\* the items and schemas of the model
Key_id == <<"i", "d">>
Key_Id == <<"I", "d">>
Key_v == <<"v">>
Key_V == <<"V">>
JsonKeys == {Key_id, Key_Id, Key_v, Key_V}
JsonValues == {StrVal(<<"a">>), StrVal(<<"7">>), IntVal(7)}
JsonPairs == {<<k, v>> : k \in JsonKeys, v \in JsonValues}
JsonItems ==
    {<<p>> : p \in JsonPairs}
    \cup {pq \in JsonPairs \X JsonPairs : pq[1][1] # pq[2][1]}
JsonSchemas ==
    {<<Field(Key_id, "str"), Field(Key_v, "str")>>,
     <<Field(Key_id, "str"), Field(Key_v, "int")>>}

InitJson ==
    /\ FanIdle
    /\ GenIdle
    /\ ObIdle
    /\ SplitIdle
    /\ GovIdle
    /\ WkIdle
    /\ jsItems \in UNION {[1..n -> JsonItems] : n \in 0..MaxItems}
    /\ jsSchema \in JsonSchemas
    /\ jsPc = "start"
    /\ jsOut = NoTab

BuildRecords ==
    /\ jsPc = "start"
    /\ jsOut' = json_to_pydantic_list(jsItems, jsSchema)
    /\ jsPc' = "done"
    /\ UNCHANGED <<jsItems, jsSchema>>
    /\ UNCHANGED <<fanVars, genVars, obVars, splitVars, govVars, wkVars>>

NextJson == BuildRecords

SpecJson == InitJson /\ [][NextJson]_vars

(***************************************************************************)
(* Properties of the fan-out (SpecFan, FairSpecFan).                       *)
(***************************************************************************)
CallEnded == callPc \in {"returned", "raised"}
Succeeded == {u \in Units : res[u].kind \in {"value", "tuple"}}
Failed == {u \in Units : res[u].kind \in {"exc", "None"}}
FinishedBefore(u, v) ==
    /\ \E i \in 1..Len(order) : order[i] = u
    /\ \E j \in 1..Len(order) : order[j] = v
    /\ PosIn(order, u) < PosIn(order, v)

\* C1: with an admission limit L > 0 the number of units inside their core
\* work (between acquiring and releasing the semaphore) never exceeds L,
\* for every K and every interleaving.
C1_AdmissionBound == Conc > 0 => InFlight <= Conc

C1_Witness == Conc > 0 /\ K > Conc /\ InFlight = Conc /\ waiters # <<>>

\* C2: under both policies the call returns or raises only after every one of
\* the K units has finished its own execution; a unit's error neither skips
\* nor cancels another unit.
C2_CallEndsAfterAllUnits ==
    CallEnded => \A u \in Units : pc[u] = "done" /\ res[u].kind # "none"

C2_Witness ==
    /\ CallEnded
    /\ \E u \in Failed : \E v \in Succeeded : FinishedBefore(u, v)

\* C3: when units of invoke_many fail, the error raised to the caller is the
\* error of the failed unit with the lowest submission index, whatever the
\* order in which the units finished.
C3_LowestIndexErrorRaised ==
    (policy = "invoke_many" /\ CallEnded /\ Failed # {})
        => callPc = "raised" /\ ret.exc = Exc(SetMin(Failed))

C3_Witness ==
    /\ policy = "invoke_many"
    /\ callPc = "raised"
    /\ \E u \in Failed : \E v \in Failed : u < v /\ FinishedBefore(v, u)

\* C4: when all K units of invoke_many succeed, the returned list has length
\* K and its element i is the result of the i-th submitted prompt, for every
\* completion order.
C4_ResultsInSubmissionOrder ==
    (policy = "invoke_many" /\ CallEnded /\ Succeeded = Units)
        => /\ callPc = "returned"
           /\ Len(ret.out) = K
           /\ \A i \in 1..K : ret.out[i] = Value(i - 1)

C4_Witness ==
    /\ policy = "invoke_many"
    /\ callPc = "returned"
    /\ K >= 2
    /\ \E u \in Units : \E v \in Units : u < v /\ FinishedBefore(v, u)

\* C5: invoke_many_agent never raises because of a unit's error; it returns
\* exactly one mapping entry per successful unit and exactly one Failure
\* Record per failed unit, K in all, and no unit is in both.
C5_AggregatePartial ==
    policy = "invoke_many_agent" =>
        /\ callPc # "raised"
        /\ callPc = "returned" =>
            /\ Len(ret.merged) = Cardinality(Succeeded)
            /\ {ret.merged[i][1] : i \in 1..Len(ret.merged)} = {ChildName(u) : u \in Succeeded}
            /\ Len(ret.failures) = Cardinality(Failed)
            /\ {ret.failures[i].idx : i \in 1..Len(ret.failures)} = Failed
            /\ Len(ret.merged) + Len(ret.failures) = K
            /\ Succeeded \cap Failed = {}

C5_Witness ==
    /\ policy = "invoke_many_agent"
    /\ callPc = "returned"
    /\ K = 3
    /\ Succeeded = {0, 2}
    /\ Failed = {1}

\* C6: under invoke_many, if any unit fails the call ends by raising and the
\* caller receives no result of any unit, the successful ones included.
C6_NoPartialSuccess ==
    (policy = "invoke_many" /\ CallEnded /\ Failed # {})
        => callPc = "raised" /\ ret.out = <<>>

C6_Witness ==
    /\ policy = "invoke_many"
    /\ callPc = "raised"
    /\ Succeeded # {}

Admitted(u) == pc[u] \in {"core", "done"}

IsSentinel(t) == Lower(Strip(t)) = Sentinel

\* Degenerate as the specification words it: nothing is left once spaces and
\* dashes are removed, or the trimmed reply, its long runs cut to 100, is at
\* least 9 times as long as what is left.
ClaimDegenerate(t) ==
    LET s == Strip(t)
    IN  \/ TLen(Compact(s)) = 0
        \/ TLen(Collapse(s)) >= RatioLimit * TLen(Compact(s))

AllReplies(g) == \A i \in 1..Len(g) : g[i].kind = "reply"

\* N-1 incomplete replies followed by one complete reply, N-1 <= max_continuations
ScriptDone(g) ==
    /\ Len(g) >= 1
    /\ Len(g) - 1 <= MaxContinuations
    /\ AllReplies(g)
    /\ \A i \in 1..(Len(g) - 1) : ~is_complete(cfg, g[i].text)
    /\ is_complete(cfg, g[Len(g)].text)

\* a proper prefix of such a script: only incomplete replies so far
ScriptOpen(g) ==
    /\ Len(g) >= 1
    /\ Len(g) <= MaxContinuations
    /\ AllReplies(g)
    /\ \A i \in 1..Len(g) : ~is_complete(cfg, g[i].text)

RECURSIVE ConcatAll(_)
ConcatAll(g) == IF g = <<>> THEN NoText ELSE Cat(ConcatAll(Front(g)), Last(g).text)

OrdinaryReplies(g) ==
    /\ \A i \in 1..Len(g) : ~IsSentinel(g[i].text)
    /\ g # <<>> => ~ClaimDegenerate(g[1].text)

\* C8 (as claimed): one single timeout covers the unit's entire execution, so
\* the unit never spends more than the timeout in its Gateway calls, and once
\* a timeout expired the unit is over and reported as a timeout error.
C8_OneTimeoutCoversUnit ==
    /\ elapsed <= TimeoutTicks
    /\ timedOut => gpc \in {"failed", "raised"} /\ lastExc = "timeout"

\* C9 (as claimed): when the Gateway answers N-1 incomplete replies and then a
\* complete one, N-1 <= max_continuations, exactly N-1 continuation requests
\* are sent (one after every incomplete reply, none after the complete one)
\* and the assembled text is the concatenation of the N replies.
C9_ScriptedContinuation ==
    /\ ScriptDone(got) =>
          /\ contRequests = Len(got) - 1
          /\ asmDone
          /\ assembled = ConcatAll(got)
    /\ ScriptOpen(got) => gpc = "cont_call" /\ contRequests = Len(got)

\* C9 (amended): the same, for replies none of which is the sentinel
\* "completed." and the first of which is not degenerate.
C9_ScriptedOrdinaryContinuation ==
    OrdinaryReplies(got) =>
        /\ ScriptDone(got) =>
              /\ contRequests = Len(got) - 1
              /\ asmDone
              /\ assembled = ConcatAll(got)
        /\ ScriptOpen(got) => gpc = "cont_call" /\ contRequests = Len(got)

C9_Witness ==
    /\ OrdinaryReplies(got)
    /\ ScriptDone(got)
    /\ Len(got) = MaxContinuations + 1
    /\ gpc = "returned"

\* C10: a first reply of compacted length 0, or at least 9 times as long as
\* its compacted form, fails the generation at once with the degenerate-output
\* error; no continuation request is sent and nothing is assembled.
C10_DegenerateFailsAtOnce ==
    (got # <<>> /\ got[1].kind = "reply" /\ ClaimDegenerate(got[1].text))
        => /\ Len(got) = 1
           /\ contRequests = 0
           /\ ~asmDone
           /\ gpc \in {"failed", "raised"}
           /\ failure = "degenerate"

C10_Witness ==
    /\ gpc = "failed"
    /\ failure = "degenerate"
    /\ got = <<Reply(R_rep9)>>

\* the generation ended in the continuation-exhausted error and gave no text
EndedExhausted ==
    /\ gpc \in {"failed", "raised"}
    /\ failure = "exhausted"
    /\ ~asmDone
    /\ assembled = NoText
    /\ output.kind \notin {"text", "object"}

\* the Gateway answered every allowed continuation request
AllContinuationsAnswered(g) == Len(g) = MaxContinuations + 1 /\ AllReplies(g)

\* C11 (as claimed): one generation sends at most max_continuations (4)
\* continuation requests; if the reply to the last allowed request is still
\* incomplete, the generation ends in the continuation-exhausted error and
\* returns no text.
C11_ContinuationsExhausted ==
    /\ contRequests <= MaxContinuations
    /\ (AllContinuationsAnswered(got) /\ ~is_complete(cfg, Last(got).text))
          => EndedExhausted

\* C11 (amended): the same, for a last reply that is incomplete and is not the
\* sentinel "completed.".
C11_ContinuationsExhaustedUnlessSentinel ==
    /\ contRequests <= MaxContinuations
    /\ (/\ AllContinuationsAnswered(got)
        /\ ~is_complete(cfg, Last(got).text)
        /\ ~IsSentinel(Last(got).text))
          => EndedExhausted

C11_Witness ==
    /\ AllContinuationsAnswered(got)
    /\ ~is_complete(cfg, Last(got).text)
    /\ ~IsSentinel(Last(got).text)
    /\ contRequests = MaxContinuations
    /\ gpc = "failed"
    /\ failure = "exhausted"

\* the continuation request that was answered last raised an error
ContinuationRequestFailed(g) == Len(g) >= 2 /\ Last(g).kind \in FailureKinds

\* C12: when a continuation request to the Gateway raises, the generation does
\* not fail on that error: no further request is sent, the assistant replies
\* gathered so far are assembled and handed to the output repair.
C12_ContinuationErrorKeepsGathered ==
    ContinuationRequestFailed(got) =>
        /\ asmDone
        /\ assembled = ConcatAll(Front(got))
        /\ contRequests = Len(got) - 1
        /\ failure \notin FailureKinds
        /\ gpc = "assembled" \/ repairCalls = 1

C12_Witness ==
    /\ ContinuationRequestFailed(got)
    /\ Len(got) = 3
    /\ Last(got).kind = "error"
    /\ gpc = "returned"
    /\ output.text = Strip(ConcatAll(Front(got)))

\* C20 (as claimed): when the Gateway raises on the initial call of a
\* generation, the caller of the chain receives that same Gateway error,
\* neither wrapped in nor replaced by another error.
C20_GatewayErrorUnchanged ==
    (gpc = "raised" /\ got = <<GatewayFailure("error")>>)
        => output = [kind |-> "error", text |-> NoText, cause |-> "none"]

(***************************************************************************)
(* Properties of the table extractor and of the operation around it        *)
(* (SpecOb, SpecSplit).                                                    *)
(***************************************************************************)
\* the table blocks md_table_to_pydantic_list finds in the text
BlocksOf(text) == TableBlocks(sanitize_table(text).text).tables

\* table_rows: `[row.strip("|").strip() for row in table]`
StrippedRows(table) == [i \in 1..Len(table) |-> SStrip(StripOf(table[i], {Pipe}))]

\* the rows, other than the first, whose identifier column is empty
EmptyIdRows(table_rows) ==
    {i \in 2..Len(table_rows) : RColsOf(table_rows[i])[ColumnId + 1] = <<>>}

\* C13: within every table block each row but the first whose identifier
\* column is empty is merged into the row before it: afterwards no row but
\* the first has an empty identifier column, and the block has as many rows
\* fewer as it had such rows.
C13_ItemizedRowsMerged ==
    (obPc # "start" /\ obTab.shape = "tuple") =>
        \A b \in 1..Len(BlocksOf(obData)) :
            /\ EmptyIdRows(MergeItemized(StrippedRows(BlocksOf(obData)[b])).rows) = {}
            /\ Len(MergeItemized(StrippedRows(BlocksOf(obData)[b])).rows)
                   = Len(BlocksOf(obData)[b])
                         - Cardinality(EmptyIdRows(StrippedRows(BlocksOf(obData)[b])))

\* The well-formed tables of the model: a header row, the divider row and
\* up to MaxLines - 2 data rows with a non-empty identifier, each data row
\* with the record it stands for (emphasis marks removed, the cell of an
\* integer field parsed).
HeaderRows == {Row_Ax, Row_B7, Row_ey}

DataRowCases(schema) ==
    {[line |-> Row_B7,
      record |-> <<StrVal(<<"B">>),
                   IF schema[2] = "int" THEN IntVal(7) ELSE StrVal(<<"7">>)>>]}
    \cup (IF schema[2] = "str"
          THEN {[line |-> Row_Ax, record |-> <<StrVal(<<"A">>), StrVal(<<"x">>)>>]}
          ELSE {})

WellFormedCases ==
    [s \in Schemas |->
        {[text |-> JoinWith(<<h, Row_divider>> \o [i \in DOMAIN rs |-> rs[i].line], <<Nl>>),
          records |-> [i \in DOMAIN rs |-> rs[i].record]] :
            h \in HeaderRows,
            rs \in UNION {[1..m -> DataRowCases(s)] : m \in 0..(MaxLines - 2)}}]

\* C14: for a well-formed table of N columns (header row, divider row, M
\* data rows with a non-empty identifier) and a schema of N fields the
\* extractor returns exactly M records, in row order, field k of record r
\* being column k of data row r; header and divider give no record.
C14_WellFormedTableGivesRecords ==
    (obPc \notin {"idle", "start"}) =>
        \A c \in WellFormedCases[obSchema] :
            obData = c.text =>
                /\ obTab.shape \in {"tuple", "list"}
                /\ obTab.records = c.records

C14_Witness ==
    /\ obPc = "returned"
    /\ obTab.shape = "tuple"
    /\ \E c \in WellFormedCases[obSchema] :
           /\ obData = c.text
           /\ Len(c.records) = 2
           /\ c.records[1] # c.records[2]
           /\ obTab.records = c.records

\* C15: for every non-empty record list R the extractor returned, the
\* extraction of the table serialized from R, with the same schema, returns
\* a record list equal to R, records with an empty identifier included.
C15_RoundTrip ==
    (obAgain # NoTab) =>
        /\ obAgain.shape = "tuple"
        /\ obAgain.records = obTab.records

\* the rows sanitize_table validated in the text, each with the set it went to
RowsIn(text) == SanitizeRows(text).rows

\* how often a line occurs in a list of lines
Occurrences(lines, l) == Cardinality({i \in 1..Len(lines) : lines[i] = l})

\* C16: every delimited row of the trimmed text goes to exactly one of the
\* rows kept for records, the Defective Lines and the dropped terminator
\* rows; a row whose column count still differs after the delimiter repair
\* is in the Defective Lines handed to the caller and gives no record.
C16_RowsPartitioned ==
    (obPc \notin {"idle", "start"} /\ obPath = "table" /\ SanitizeRows(obData).ok) =>
        \A i \in 1..Len(RowsIn(obData)) :
            /\ RowsIn(obData)[i].to \in {"kept", "defective", "terminator"}
            /\ RowsIn(obData)[i].to = "defective" =>
                   /\ ~obDefective.none
                   /\ Occurrences(obDefective.items, RowsIn(obData)[i].line)
                          = Cardinality({k \in 1..Len(RowsIn(obData)) :
                                            /\ RowsIn(obData)[k].to = "defective"
                                            /\ RowsIn(obData)[k].line = RowsIn(obData)[i].line})
                   /\ Occurrences(SplitOn(sanitize_table(obData).text, Nl),
                                  RowsIn(obData)[i].line) = 0

\* some line of the text is a delimited row other than a terminator row
HasTableRow(text) ==
    \E i \in 1..Len(SplitLines(text)) :
        /\ IsDelimited(SStrip(SplitLines(text)[i]))
        /\ ~is_keyword_row(SplitLines(text)[i])

\* C17: the extractor returns None only when the text has no table-like
\* block at all; when blocks were detected but gave no valid row it returns
\* an empty list, which the caller takes for a valid empty result: no
\* exception, no fallback.
C17_EmptyListIsNotNull ==
    (obPc \notin {"idle", "start"} /\ obPath = "table") =>
        /\ obTab.shape = "None" => ~HasTableRow(obData)
        /\ obTab.shape = "list" =>
               /\ ~obExc
               /\ obPc # "fallback"
               /\ obSent = <<>>

\* a divider row: only '-', ':', '|' and whitespace
DividerRow(line) ==
    /\ line # <<>>
    /\ \A i \in 1..Len(line) : line[i] \in {Dash, Colon, Pipe} \cup SWhitespace

\* the lines that are header (the first two when the second is a divider row)
HeaderLen == IF Len(spLines) >= 2 /\ DividerRow(spLines[2]) THEN 2 ELSE 0

\* C18: with a chunk size n >= 1, split_into_recordsets takes the first two
\* lines for the header when the second is a divider row and cuts the data
\* rows into consecutive chunks: n rows in every chunk but the last, 1 to n
\* in the last, the header in front of each, and the data rows of the
\* chunks, in order, are the data rows.
C18_ChunksCarryHeader ==
    (spPc = "done" /\ spCount >= 1) =>
        /\ \A c \in 1..Len(spOut) :
               /\ Len(spOut[c]) >= HeaderLen
               /\ SubSeq(spOut[c], 1, HeaderLen) = SubSeq(spLines, 1, HeaderLen)
               /\ Len(spOut[c]) - HeaderLen \in 1..spCount
               /\ c < Len(spOut) => Len(spOut[c]) - HeaderLen = spCount
        /\ FlattenSeqs([c \in 1..Len(spOut) |->
                           SubSeq(spOut[c], HeaderLen + 1, Len(spOut[c]))])
               = SubSeq(spLines, HeaderLen + 1, Len(spLines))

\* C19: obnoxious_text_to_pydantic_list never raises to its caller: an
\* exception of the table, section or JSON extraction leads to the fallback
\* repair, an exception of a repair call is absorbed, and the operation
\* goes on until it returns a list of records.
C19_NeverRaises ==
    /\ obPc \in {"idle", "start", "fallback", "defective", "cleanup", "returned"}
    /\ obExc => (obPc = "fallback" \/ obSent # <<>>)
    /\ obPc = "fallback" => Len(obSent) < Len(obRecordsets)
    /\ obPc \in {"defective", "cleanup"} => ~obInstances.none
    /\ obPc = "returned" =>
           /\ ~obRet.none
           /\ obAbsorbed <= Len(obSent)

C19_Witness ==
    /\ obPc = "returned"
    /\ obTab.shape = "raise"
    /\ obExc
    /\ obAbsorbed = 1
    /\ obRet = PyList(<<>>)

(***************************************************************************)
(* Properties of the Failure Records and of what a failed unit leaves.     *)
(***************************************************************************)
FailedUnits == {u \in Units : res[u].kind = "None"}

\* The structured values the caller of invoke_many_agent can read from the
\* returned pair: the fields of every Failure Record (its integer idx
\* aside) and, for every entry of `merged`, the state of the context stored
\* there.
ReturnedValues ==
    UNION {{ret.failures[i].name, ret.failures[i].error,
            ret.failures[i].param} : i \in DOMAIN ret.failures}
    \cup {ChildState(ret.merged[i][2], "ok") : i \in DOMAIN ret.merged}

\* C21: every Failure Record returned by invoke_many_agent holds the failed
\* unit's submission index, its generated name, the error text and a
\* truncated preview of the unit's input, not the input itself.
C21_FailureRecordHoldsPreview ==
    (policy = "invoke_many_agent" /\ callPc = "returned") =>
        \A i \in DOMAIN ret.failures :
            /\ ret.failures[i].idx \in FailedUnits
            /\ ret.failures[i].name = ChildName(ret.failures[i].idx)
            /\ ret.failures[i].error = Exc(ret.failures[i].idx)
            /\ ret.failures[i].param = ParamPreview(ret.failures[i].idx)

\* C22: when invoke_many_agent has returned, the state a failed unit left in
\* its context (the error details of invoke_one_agent) is among the values
\* handed to the caller.
C22_PartialStateCaptured ==
    (policy = "invoke_many_agent" /\ callPc = "returned") =>
        \A u \in FailedUnits :
            \/ ChildState(u, "err") \in ReturnedValues
            \/ ErrorDetails(u) \in ReturnedValues

(***************************************************************************)
(* Admission limit 0.                                                      *)
(***************************************************************************)
\* C23: when the admission limit resolves to 0 there is no semaphore and no
\* unit is ever queued for admission; the state with all K units in their
\* core work at once is the witness.
C23_NoWaitingWhenUnlimited ==
    Conc = 0 =>
        /\ ~semOn
        /\ waiters = <<>>
        /\ \A u \in Units : pc[u] \in {"pending", "core", "done"}

C23_Witness ==
    /\ Conc = 0
    /\ K = MaxK
    /\ \A u \in Units : pc[u] = "core"

(***************************************************************************)
(* The sentinel as a continuation reply.                                   *)
(***************************************************************************)
\* The Gateway's answers of the attempt that belong to the text: the first
\* reply and every continuation reply that is not the sentinel.
KeptReplies(g) ==
    IF g = <<>> THEN <<>>
    ELSE SelectSeq(<<g[1]>>, LAMBDA x : x.kind = "reply")
         \o SelectSeq(Tail(g), LAMBDA x : x.kind = "reply" /\ ~IsSentinel(x.text))

AssistantTurns(h) == SelectSeq(h, LAMBDA m : m.role = "assistant")

\* C30: once a continuation reply is the sentinel (trimmed, any letter
\* case), it is the last answer the Gateway was asked for in the attempt,
\* it is not in the History, and the assembled text is made of the other
\* replies only.
C30_SentinelReplyEndsAndIsDropped ==
    \A i \in 2..Len(got) :
        (got[i].kind = "reply" /\ IsSentinel(got[i].text)) =>
            /\ i = Len(got)
            /\ gpc # "cont_call"
            /\ contRequests = Len(got) - 1
            /\ AssistantTurns(history)
                   = [j \in 1..Len(KeptReplies(got)) |->
                          AssistantTurn(KeptReplies(got)[j].text)]
            /\ asmDone
            /\ assembled = ConcatAll(KeptReplies(got))

C30_Witness ==
    /\ Len(got) >= 3
    /\ got[Len(got)].kind = "reply"
    /\ IsSentinel(got[Len(got)].text)
    /\ got[Len(got)].text # Sentinel
    /\ gpc = "returned"
    /\ assembled # NoText

(***************************************************************************)
(* The returned records after the clean-up.                                *)
(***************************************************************************)
HasChar(value, cs) == value.t = "str" /\ \E i \in 1..Len(value.s) : value.s[i] \in cs

DirtyRecord(rec) == \E i \in 1..Len(rec) : HasChar(rec[i], {Pipe, Nl})

\* C24: no string field of a record returned by
\* obnoxious_text_to_pydantic_list holds a '|' or a line break, whichever
\* extraction or repair call the record came from.
C24_ReturnedFieldsAreClean ==
    obPc = "returned" =>
        \A r \in 1..Len(obRet.items) : ~DirtyRecord(obRet.items[r])

\* records of the table extractor and of a repair call returned together,
\* the repaired one with a '|' and a line break before the clean-up
C24_Witness ==
    /\ obPc = "returned"
    /\ obPath = "table"
    /\ obTab.shape = "tuple"
    /\ obTab.records # <<>>
    /\ Len(obRet.items) > Len(obTab.records)
    /\ \E r \in 1..Len(obInstances.items) : DirtyRecord(obInstances.items[r])

(***************************************************************************)
(* The choice of the extraction.                                           *)
(***************************************************************************)
TableRowLines(data) == CountLines(SplitLines(data), LAMBDA l : IsDelimited(SStrip(l)))
MarkerLines(data) == CountLines(SplitLines(data), LAMBDA l : StartsWith(SStrip(l), SectionMark))
FenceLines(data) == CountLines(SplitLines(data), LAMBDA l : StartsWith(SStrip(l), Fence))

SectionCase(data) == TableRowLines(data) = 0 /\ MarkerLines(data) > 0
JsonCase(data) == TableRowLines(data) = 0 /\ MarkerLines(data) = 0 /\ FenceLines(data) = 2

\* C25: the section extraction is chosen only for a text without table
\* row-lines that has '### ::' marker lines, the JSON extraction only for a
\* text without table row-lines and markers that has exactly two fence
\* lines, and the table extractor in every other case.
C25_PathSelection ==
    obPath # "none" =>
        /\ obPath = "section" => SectionCase(obData)
        /\ obPath = "json" => JsonCase(obData)
        /\ (~SectionCase(obData) /\ ~JsonCase(obData)) => obPath = "table"

(***************************************************************************)
(* Divider rows among the data rows.                                       *)
(***************************************************************************)
\* the lines of a text after its header row and the header's divider
BodyLines(data) == SubSeq(SplitLines(data), 3, Len(SplitLines(data)))

\* a table of two text columns: header, divider, then data rows with
\* dividers among them, the last line being a data row
DividedTable(data, schema) ==
    /\ data \in DividedTexts
    /\ schema = <<"str", "str">>
    /\ Last(SplitLines(data)) = Row_B7

Record_B7 == <<StrVal(<<"B">>), StrVal(<<"7">>)>>

\* C26: in such a table the dividers are dropped and every data row gives
\* its record, a data row standing alone between two dividers included.
C26_DividerDropsNoDataRow ==
    (obPath = "table" /\ DividedTable(obData, obSchema)) =>
        /\ obTab.shape = "tuple"
        /\ obTab.records =
               [i \in 1..Occurrences(BodyLines(obData), Row_B7) |-> Record_B7]

(***************************************************************************)
(* The rows of the fallback recordsets.                                    *)
(***************************************************************************)
\* a chunk without the header row and divider split_into_recordsets put first
ChunkDataRows(chunk) ==
    IF Len(chunk) >= 2 /\ IsSeparator(chunk[2])
    THEN SubSeq(chunk, 3, Len(chunk))
    ELSE chunk

AllChunkDataRows(chunks) ==
    FlattenSeqs([i \in 1..Len(chunks) |-> ChunkDataRows(chunks[i])])

\* the row-lines of the raw text that are neither a divider nor a header,
\* a header being a row with a divider as its next line
RowLineToKeep(lines, i) ==
    /\ IsDelimited(SStrip(lines[i]))
    /\ ~IsSeparator(SStrip(lines[i]))
    /\ ~(i < Len(lines) /\ IsDelimited(SStrip(lines[i + 1]))
                         /\ IsSeparator(SStrip(lines[i + 1])))

RECURSIVE RowLinesToKeepFrom(_, _)
RowLinesToKeepFrom(lines, i) ==
    IF i > Len(lines) THEN <<>>
    ELSE (IF RowLineToKeep(lines, i) THEN <<SStrip(lines[i])>> ELSE <<>>)
         \o RowLinesToKeepFrom(lines, i + 1)

RowLinesToKeep(data) == RowLinesToKeepFrom(SplitLines(data), 1)

\* C27: the data rows of the chunks create_fallback_recordset returns are
\* the row-lines of the raw text that are neither dividers nor headers,
\* each once and in the order of the text, also for rows that no divider
\* precedes.
C27_FallbackKeepsRows ==
    (obPath = "table" /\ obPc = "fallback") =>
        AllChunkDataRows(create_fallback_recordset(obData, FallbackRowCount))
            = RowLinesToKeep(obData)

(***************************************************************************)
(* A cell that does not fit its field's type.                              *)
(***************************************************************************)
\* a text made of the rows | A | x | and | **B** | 7 | only
PlainRows(data) == \A i \in 1..Len(SplitLines(data)) : SplitLines(data)[i] \in {Row_Ax, Row_B7}

\* the record of such a row under the schema (str, int), the cell that is
\* no integer giving an empty field
RecordWithEmptyField(line) ==
    IF line = Row_Ax THEN <<StrVal(<<"A">>), NoneVal>> ELSE <<StrVal(<<"B">>), IntVal(7)>>

\* C29: a cell that cannot be coerced to the integer type of its field
\* leaves that field empty; its row and the other rows still give their
\* records.
C29_UncoercibleCellEmptiesField ==
    (obPath = "table" /\ obSchema = <<"str", "int">> /\ PlainRows(obData)) =>
        /\ obTab.shape = "tuple"
        /\ obTab.records =
               [i \in 1..Len(SplitLines(obData)) |->
                    RecordWithEmptyField(SplitLines(obData)[i])]

(***************************************************************************)
(* Keys and fields of json_to_pydantic_list.                               *)
(***************************************************************************)
\* the item has exactly one key equal to the field name ignoring letter case
OneKeyFor(item, field) ==
    Cardinality({i \in 1..Len(item) : KeyLower(item[i][1]) = KeyLower(field)}) = 1

\* every field of the schema has its one key in the item, with a value its
\* type takes
Answers(item, schema) ==
    \A f \in 1..Len(schema) :
        /\ OneKeyFor(item, schema[f].name)
        /\ JsonCoerce(schema[f].type, LookedUp_ByMatchingKey(item, schema[f].name)) # NoneVal

\* C28: for every item and every field, when the item has a key equal to
\* the field name ignoring letter case, the field of the item's record is
\* the value stored under that key, whatever the letter case of the key.
C28_KeysMatchIgnoringCase ==
    (jsPc = "done" /\ \A i \in 1..Len(jsItems) : Answers(jsItems[i], jsSchema)) =>
        /\ jsOut.shape = "list"
        /\ Len(jsOut.records) = Len(jsItems)
        /\ \A i \in 1..Len(jsItems) : \A f \in 1..Len(jsSchema) :
               jsOut.records[i][f]
                   = JsonCoerce(jsSchema[f].type,
                                LookedUp_ByMatchingKey(jsItems[i], jsSchema[f].name))

(***************************************************************************)
(* The output repair of a generation.                                      *)
(***************************************************************************)
\* C31: fixing_parser.parse runs at most once in an attempt, only after the
\* loop of continuations is over and the text is assembled, on the join of
\* all assistant turns of the History; an attempt that failed as
\* degenerate, as exhausted or at its first Gateway call never reaches it.
C31_RepairOnceAfterAssembly ==
    /\ repairCalls <= 1
    /\ gpc \in {"initial_call", "cont_call", "assembled"} => repairCalls = 0
    /\ repairCalls = 1 => asmDone
    /\ asmDone => assembled = Assemble(history)
    /\ failure \in {"degenerate", "exhausted", "error", "timeout"} =>
           repairCalls = 0 /\ ~asmDone
    /\ failure = "parse" => repairCalls = 1
    /\ gpc = "returned" =>
           /\ repairCalls = 1
           /\ output.text = IF cfg.kind = "structured" THEN assembled
                             ELSE Strip(assembled)

C31_Witness ==
    /\ gpc = "returned"
    /\ repairCalls = 1
    /\ contRequests >= 2
    /\ Len(AssistantTurns(history)) >= 3
    /\ attempt >= 2

(***************************************************************************)
(* The end token the caller configured.                                    *)
(***************************************************************************)
\* the first reply of the attempt was taken as complete: the text was
\* assembled without any continuation request
FirstReplyTakenAsComplete == gpc = "assembled" /\ contRequests = 0

\* the attempt holds its first reply, which is neither the sentinel nor
\* degenerate, and has decided what to do with it
FirstReplyJudged ==
    /\ Len(got) = 1
    /\ got[1].kind = "reply"
    /\ ~IsSentinel(got[1].text)
    /\ gpc \in {"assembled", "cont_call"}

\* C32: whatever the kind of the chain, when the caller configured an end
\* token a reply is complete exactly if it ends with that token; the
\* heuristic set of terminal characters is used only when the caller
\* configured none.
C32_CallersEndTokenDecides ==
    /\ EndTokens(cfg).heuristic => cfg.token = NoText
    /\ (FirstReplyJudged /\ cfg.token # NoText) =>
           (FirstReplyTakenAsComplete <=> EndsWith(Strip(got[1].text), cfg.token))

(***************************************************************************)
(* The order of what invoke_many_agent returns.                            *)
(***************************************************************************)
\* C33: when invoke_many_agent has returned, the entries of the success
\* mapping and the Failure Records both come in the order of the units'
\* submission indices, whatever the order in which the units ended.
C33_BothInSubmissionOrder ==
    (policy = "invoke_many_agent" /\ callPc = "returned") =>
        /\ \A i, j \in DOMAIN ret.merged :
               i < j => ret.merged[i][2] < ret.merged[j][2]
        /\ \A i, j \in DOMAIN ret.failures :
               i < j => ret.failures[i].idx < ret.failures[j].idx

(***************************************************************************)
(* The attempts of ainvoke.                                                *)
(***************************************************************************)
\* what one step of a generation may do to the attempts
AttemptStep ==
    /\ attempt' \in 1..Retries
    /\ attempt' # attempt =>
           /\ gpc = "failed"
           /\ attempt' = attempt + 1
           /\ gpc' = "initial_call"
           /\ history' = <<>>
           /\ got' = <<>>
    /\ gpc = "failed" =>
           IF attempt < Retries THEN attempt' = attempt + 1
           ELSE gpc' = "raised" /\ output'.kind = "RuntimeError"
    /\ gpc' = "raised" => gpc = "failed" /\ attempt = Retries
    /\ gpc \in {"returned", "raised"} => vars' = vars
    /\ (gpc = "initial_call" /\ Last(got').kind = "reply") =>
           SubSeq(history', 1, 2) = <<UserTurn(Prompt), AssistantTurn(Last(got').text)>>

\* C34: a failed attempt ends only itself: ainvoke starts the generation
\* again with an empty History, the first reply of the new attempt opens a
\* History of its own, there are never more than 3 attempts, nothing
\* follows a returned attempt, and after the third failure ainvoke raises.
C34_FailedAttemptRetriedAfresh == [][AttemptStep]_vars

C34_Witness ==
    /\ attempt = Retries
    /\ gpc = "returned"
    /\ lastExc \in {"degenerate", "exhausted"}
    /\ contRequests >= 1


(***************************************************************************)
(* execute_emergency_fallback_call over several recordsets: a table of     *)
(* more than FallbackRowCount data rows whose extraction raised is cut     *)
(* into chunks, and the chunks are submitted to the repair chain.          *)
(***************************************************************************)
\* a header, a divider row and n data rows whose second cell is no integer
LongTable(n) == <<Row_Ax, Row_divider>> \o [i \in 1..n |-> Row_ey]

\* the text of that table: its lines joined by line breaks
LongText(n) ==
    Row_Ax \o <<Nl>> \o Row_divider
        \o [k \in 1..(n * (Len(Row_ey) + 1)) |->
               IF (k - 1) % (Len(Row_ey) + 1) = 0 THEN Nl
               ELSE Row_ey[(k - 1) % (Len(Row_ey) + 1)]]

\* the state after the `try` block raised on such a table and
\* `if instances is None:` prepared the recordsets
InitFallback ==
    /\ FanIdle
    /\ GenIdle
    /\ SplitIdle
    /\ JsonIdle
    /\ GovIdle
    /\ WkIdle
    /\ \E n \in 1..(FallbackRowCount * MaxChunks) :
           /\ obData = LongText(n)
           /\ obRecordsets = split_into_recordsets(LongTable(n), FallbackRowCount)
    /\ obSchema = <<"str", "int">>
    /\ obPc = "fallback"
    /\ obPath = "table"
    /\ obTab = Raised("ValidationError")
    /\ obExc = TRUE
    /\ obInstances = PyList(<<>>)
    /\ obDefective = PyNoneList
    /\ obSent = <<>>
    /\ obAbsorbed = 0
    /\ obAgain = NoTab
    /\ obRet = PyNoneList

NextFallback ==
    \/ \E items \in RepairItems(<<"str", "int">>) : FallbackChunkReturns(items)
    \/ FallbackChunkRaises
    \/ Return

SpecFallback == InitFallback /\ [][NextFallback]_vars

\* C35: the fallback submits the chunks one at a time in their order; when
\* the repair call of a chunk raises, the error is absorbed, no later chunk
\* is submitted and the records gathered from the chunks before it are what
\* the call gives back, as a plain list.
FallbackStep ==
    /\ obPc = "fallback" =>
           /\ Len(obSent) < Len(obRecordsets)
           /\ obSent = SubSeq(obRecordsets, 1, Len(obSent))
           /\ obSent' = Append(obSent, obRecordsets[Len(obSent) + 1])
           /\ IF obAbsorbed' # obAbsorbed
              THEN /\ obAbsorbed' = obAbsorbed + 1
                   /\ obInstances' = obInstances
                   /\ obPc' = "cleanup"
              ELSE /\ \E items \in RepairItems(obSchema) :
                          obInstances' = PyList(obInstances.items \o items)
                   /\ obPc' = IF Len(obSent') = Len(obRecordsets) THEN "cleanup" ELSE "fallback"
    /\ obPc = "cleanup" =>
           /\ obSent' = obSent
           /\ obAbsorbed' = obAbsorbed
           /\ obPc' = "returned"
           /\ obRet' = PyList(CleanUp(obInstances.items))
    /\ obPc = "returned" => vars' = vars
    /\ obPc' # "raised"

C35_FallbackStopsAtFirstError == [][FallbackStep]_vars

C35_Witness ==
    /\ obPc = "returned"
    /\ Len(obRecordsets) = 3
    /\ Len(obSent) = 2
    /\ obAbsorbed = 1
    /\ obRet = PyList(CleanUp(<<SampleRecord(obSchema)>>))


\* C36: when the caller passes no concurrency argument, both invoke_many and
\* invoke_many_agent bound the number of units running at once by the
\* agent's configured concurrency.
C36_AbsentArgumentUsesAgentConcurrency ==
    (concArg = AbsentOpt /\ agentConcurrency > 0) =>
        /\ semOn
        /\ InFlight <= agentConcurrency


(***************************************************************************)
(* The pipeline governor: main_async runs the steps of `_steps` in order   *)
(* through _run_agent_step, which attempts a step up to max_retries times  *)
(* with the module-level SHARED_CTX, and then builds the result archive.   *)
(* The process may call main_async again after it returned or raised.      *)
(***************************************************************************)
\* `_steps = [(Step_1, "Step 1"), (Step_2, "Step 2")]`
NumSteps == 2

\* `while attempt < max_retries:`
MayAttempt_Inclusive(a, max_retries) == a <= max_retries
MayAttempt(a, max_retries) == a < max_retries

\* `if SHARED_CTX is None:` a context on the session of this run is made,
\* `else:` the agent of the attempt is put into the one there is
Attached(ctx, run, step, a) ==
    IF ctx.none
    THEN [none |-> FALSE, session |-> run, agent |-> <<run, step, a>>, writers |-> {}]
    ELSE [ctx EXCEPT !.agent = <<run, step, a>>]

\* `agent._run_async_impl(SHARED_CTX)`: the agent of the run writes into the
\* session state of the context
AgentRan(ctx, run) == [ctx EXCEPT !.writers = @ \cup {run}]

StepResult(name, success, attempts) == [name |-> name, success |-> success, attempts |-> attempts]

InitGov ==
    /\ FanIdle
    /\ GenIdle
    /\ ObIdle
    /\ SplitIdle
    /\ JsonIdle
    /\ WkIdle
    /\ GovIdle

\* main_async is called: a new session service and session, an empty
\* summary, and the loop over the steps begins
MainAsync(max_retries) ==
    /\ gvPc \in {"idle", "returned", "raised"}
    /\ gvRun < MaxRuns
    /\ gvRun' = gvRun + 1
    /\ gvMaxRetries' = max_retries
    /\ gvStep' = 1
    /\ gvAttempt' = 0
    /\ gvLast' = "none"
    /\ gvSteps' = <<>>
    /\ gvRet' = NoReturn
    /\ gvPc' = "loop"
    /\ UNCHANGED SHARED_CTX
    /\ UNCHANGED <<fanVars, genVars, obVars, splitVars, jsonVars, wkVars>>

\* an attempt that ends in `except Exception`: before the context was
\* attached (the agent's constructor or get_session raised) or after it
AttemptFails(early) ==
    /\ gvPc = "loop"
    /\ MayAttempt(gvAttempt, gvMaxRetries)
    /\ gvAttempt' = gvAttempt + 1
    /\ SHARED_CTX' = IF early THEN SHARED_CTX
                     ELSE AgentRan(Attached(SHARED_CTX, gvRun, gvStep, gvAttempt + 1), gvRun)
    /\ gvLast' = "failed"
    /\ UNCHANGED <<gvPc, gvRun, gvMaxRetries, gvStep, gvSteps, gvRet>>
    /\ UNCHANGED <<fanVars, genVars, obVars, splitVars, jsonVars, wkVars>>

\* an attempt that returns StepResult(success=True); main_async appends it
\* and goes to the next step, or to the archive after the last one
AttemptSucceeds ==
    /\ gvPc = "loop"
    /\ MayAttempt(gvAttempt, gvMaxRetries)
    /\ SHARED_CTX' = AgentRan(Attached(SHARED_CTX, gvRun, gvStep, gvAttempt + 1), gvRun)
    /\ gvLast' = "ok"
    /\ gvSteps' = Append(gvSteps, StepResult(gvStep, TRUE, gvAttempt + 1))
    /\ IF gvStep < NumSteps
       THEN /\ gvStep' = gvStep + 1
            /\ gvAttempt' = 0
            /\ gvPc' = "loop"
       ELSE /\ gvAttempt' = gvAttempt + 1
            /\ gvPc' = "zip"
            /\ UNCHANGED gvStep
    /\ UNCHANGED <<gvRun, gvMaxRetries, gvRet>>
    /\ UNCHANGED <<fanVars, genVars, obVars, splitVars, jsonVars, wkVars>>

\* the loop of _run_agent_step ends without a success: the errors are put
\* into the session state, StepResult(success=False) is returned, and
\* main_async does `SHARED_CTX = None; return {"status": "failure"}`
RetriesExhausted ==
    /\ gvPc = "loop"
    /\ ~MayAttempt(gvAttempt, gvMaxRetries)
    /\ gvSteps' = Append(gvSteps, StepResult(gvStep, FALSE, gvAttempt))
    /\ SHARED_CTX' = NoCtx
    /\ gvRet' = [status |-> "failure"]
    /\ gvPc' = "returned"
    /\ UNCHANGED <<gvRun, gvMaxRetries, gvStep, gvAttempt, gvLast>>
    /\ UNCHANGED <<fanVars, genVars, obVars, splitVars, jsonVars, wkVars>>

\* build_and_save_final_zip returns: `SHARED_CTX = None` and the success result
ZipReturns ==
    /\ gvPc = "zip"
    /\ SHARED_CTX' = NoCtx
    /\ gvRet' = [status |-> "success"]
    /\ gvPc' = "returned"
    /\ UNCHANGED <<gvRun, gvMaxRetries, gvStep, gvAttempt, gvLast, gvSteps>>
    /\ UNCHANGED <<fanVars, genVars, obVars, splitVars, jsonVars, wkVars>>

\* build_and_save_final_zip raises: the exception leaves main_async from
\* the line of the call
ZipRaises ==
    /\ gvPc = "zip"
    /\ gvPc' = "raised"
    /\ UNCHANGED <<SHARED_CTX, gvRun, gvMaxRetries, gvStep, gvAttempt, gvLast, gvSteps, gvRet>>
    /\ UNCHANGED <<fanVars, genVars, obVars, splitVars, jsonVars, wkVars>>

NextGov ==
    \/ \E max_retries \in 0..MaxRetriesArg : MainAsync(max_retries)
    \/ \E early \in BOOLEAN : AttemptFails(early)
    \/ AttemptSucceeds
    \/ RetriesExhausted
    \/ ZipReturns
    \/ ZipRaises

SpecGov == InitGov /\ [][NextGov]_vars

\* C37: main_async leaves SHARED_CTX None on every exit path (a step
\* failed, full success, an exception while the archive is built), so a
\* later run in the same process never starts with, or writes into, the
\* context and session state of an earlier run.
C37_SharedCtxClearedOnEveryExit ==
    /\ gvPc \in {"returned", "raised"} => SHARED_CTX.none
    /\ ~SHARED_CTX.none => /\ SHARED_CTX.session = gvRun
                           /\ SHARED_CTX.writers \subseteq {gvRun}

\* C38: within a step an attempt follows only a failed attempt and the
\* attempts never exceed max_retries; the next step starts only when the
\* step before it succeeded; a step out of attempts ends the run with
\* status failure and no later step is run.
GovStep ==
    /\ gvAttempt' \in 0..gvMaxRetries'
    /\ (gvRun' = gvRun /\ gvStep' = gvStep /\ gvAttempt' # gvAttempt) =>
           /\ gvPc = "loop"
           /\ gvAttempt' = gvAttempt + 1
           /\ gvAttempt >= 1 => gvLast = "failed"
    /\ (gvRun' = gvRun /\ gvStep' # gvStep) =>
           /\ gvStep' = gvStep + 1
           /\ gvAttempt' = 0
           /\ gvLast' = "ok"
           /\ Last(gvSteps') = StepResult(gvStep, TRUE, gvAttempt + 1)
    /\ (gvPc = "loop" /\ gvAttempt >= gvMaxRetries) =>
           /\ gvPc' = "returned"
           /\ gvRet' = [status |-> "failure"]
           /\ Last(gvSteps') = StepResult(gvStep, FALSE, gvAttempt)
           /\ gvStep' = gvStep
    /\ (gvRet' # gvRet /\ gvRet'.status = "failure") =>
           /\ gvPc = "loop"
           /\ gvAttempt = gvMaxRetries
           /\ gvAttempt >= 1 => gvLast = "failed"
    /\ (gvPc = "returned" /\ gvRun' = gvRun) => UNCHANGED govVars
    /\ gvPc' = "zip" => \A i \in 1..NumSteps : gvSteps'[i].name = i /\ gvSteps'[i].success

C38_RetriesBoundedStepsInOrder == [][GovStep]_vars

C38_Witness ==
    /\ gvPc = "returned"
    /\ gvRet.status = "failure"
    /\ gvMaxRetries = 2
    /\ gvSteps = <<StepResult(1, TRUE, 2), StepResult(2, FALSE, 2)>>


(***************************************************************************)
(* JobWorker.run: the polling loop of the worker process over the jobs     *)
(* table and the singleton row of worker_state.  Jobs are numbered in the  *)
(* order of created_at.                                                    *)
(***************************************************************************)
JobStatuses == {"PENDING", "COMPLETED", "ERROR"}

Pending == {j \in DOMAIN wkJobs : wkJobs[j] = "PENDING"}

\* `... WHERE status = 'PENDING' ORDER BY created_at ASC LIMIT 1`
fetch_next_pending_job == IF Pending = {} THEN 0 ELSE SetMin(Pending)

\* cursor.execute on a connection: a closed connection is unusable and
\* every operation on it raises (Python DB-API, Connection.close)
Executes(conn) == conn = "open"

\* release_worker_lock(conn): `UPDATE worker_state SET is_busy = FALSE ...`
release_worker_lock(conn, busy) == IF Executes(conn) THEN FALSE ELSE busy

\* acquire_worker_lock(conn): the upsert writes TRUE over a row that is TRUE
\* (`WHERE worker_state.is_busy = TRUE`) and leaves a row that is FALSE
acquire_worker_lock(conn, busy) == busy

InitWk ==
    /\ FanIdle
    /\ GenIdle
    /\ ObIdle
    /\ SplitIdle
    /\ JsonIdle
    /\ GovIdle
    /\ wkPc = "loop"
    /\ is_busy \in BOOLEAN
    /\ wkJobs \in UNION {[1..n -> JobStatuses] : n \in 0..MaxJobs}
    /\ wkConn = "none"
    /\ wkJob = 0
    /\ wkLast = "none"

\* an iteration that finds no pending job: the lock is released on the
\* open connection, which is then closed
PollEmpty ==
    /\ wkPc = "loop"
    /\ fetch_next_pending_job = 0
    /\ is_busy' = release_worker_lock("open", is_busy)
    /\ wkConn' = "closed"
    /\ wkLast' = "empty"
    /\ UNCHANGED <<wkPc, wkJobs, wkJob>>
    /\ UNCHANGED <<fanVars, genVars, obVars, splitVars, jsonVars, govVars>>

\* an iteration that finds a job: acquire_worker_lock, `conn.close()`, and
\* handle_message is called
PickUp ==
    /\ wkPc = "loop"
    /\ fetch_next_pending_job # 0
    /\ wkJob' = fetch_next_pending_job
    /\ is_busy' = acquire_worker_lock("open", is_busy)
    /\ wkConn' = "closed"
    /\ wkPc' = "handling"
    /\ UNCHANGED <<wkJobs, wkLast>>
    /\ UNCHANGED <<fanVars, genVars, obVars, splitVars, jsonVars, govVars>>

\* handle_message on a connection of its own: set_worker_busy(conn, True)
\* and the job's status end as COMPLETED or ERROR; when db_connect raises
\* nothing is written and "ERROR" is returned
HandleMessage(outcome) ==
    /\ wkPc = "handling"
    /\ IF outcome = "unreachable"
       THEN UNCHANGED <<is_busy, wkJobs>>
       ELSE /\ is_busy' = TRUE
            /\ wkJobs' = [wkJobs EXCEPT ![wkJob] = outcome]
    /\ wkPc' = "handled"
    /\ UNCHANGED <<wkConn, wkJob, wkLast>>
    /\ UNCHANGED <<fanVars, genVars, obVars, splitVars, jsonVars, govVars>>

\* `self.release_worker_lock(conn)` after handle_message returned, on the
\* `conn` of this iteration; when it raises, the except clause calls it
\* once more on the same `conn`, logs and sleeps
ReleaseAfterJob ==
    /\ wkPc = "handled"
    /\ is_busy' = release_worker_lock(wkConn, is_busy)
    /\ wkPc' = "loop"
    /\ wkLast' = "job"
    /\ UNCHANGED <<wkJobs, wkConn, wkJob>>
    /\ UNCHANGED <<fanVars, genVars, obVars, splitVars, jsonVars, govVars>>

\* _graceful_shutdown set self.shutdown: `while not self.shutdown` ends
Shutdown ==
    /\ wkPc = "loop"
    /\ wkPc' = "stopped"
    /\ UNCHANGED <<is_busy, wkJobs, wkConn, wkJob, wkLast>>
    /\ UNCHANGED <<fanVars, genVars, obVars, splitVars, jsonVars, govVars>>

NextWk ==
    \/ PollEmpty
    \/ PickUp
    \/ \E outcome \in {"COMPLETED", "ERROR", "unreachable"} : HandleMessage(outcome)
    \/ ReleaseAfterJob
    \/ Shutdown

SpecWk == InitWk /\ [][NextWk]_vars

\* C39: after handle_message returned for a picked-up job, completed or
\* errored, worker_state.is_busy is FALSE before the worker polls for the
\* next pending job.
C39_LockReleasedBeforeNextPoll ==
    (wkPc = "loop" /\ wkLast = "job") => ~is_busy

====
